---- MODULE Spec2Model ----
(***************************************************************************)
(* Model of the acquisition pipeline of tail-end-analysis:                 *)
(*   - the cursor-paginated bulk fetchers                                  *)
(*       etl/1_continue_fetch_markets.py  continue_fetch_markets           *)
(*       etl/1_fetch_markets.py           fetch_markets_by_status          *)
(*   - the per-market chunked candlestick fetcher                          *)
(*       etl/3_fetch_candlesticks.py                                       *)
(*   - the write_batch of the earlier fetcher, test_1.py                   *)
(* A bulk run is a record (the locals of the function plus its position),  *)
(* and every step of the function is an operator from record to record, so *)
(* that one run, two interleaved runs and two runs driven by the same API  *)
(* behaviour all use the same translation of the code.                     *)
(***************************************************************************)
EXTENDS Integers, Sequences, FiniteSets, TLC

VARIABLES
    mode,       \* which scenario of bulk runs is explored
    endStyle,   \* how the API marks the end of the collection
    runs,       \* runs[r]: the state of bulk run r
    store,      \* the MongoDB collection step_11: a sequence of documents
    lastWrite,  \* lastWrite[t]: the last record upserted for ticker t
    cfg,        \* candlestick run: the markets of step_22, PERIOD_INTERVALS, now
    cpc,        \* candlestick run: position in main()
    mi,         \* candlestick run: number of markets taken from the list
    tally,      \* success_count, skip_count, error_count
    cache,      \* event_to_series_cache
    step3,      \* the MongoDB collection step_33: a sequence of documents
    loc,        \* locals of main() and of the functions it calls
    hist        \* history of the candlestick run

bulkVars == <<mode, endStyle, runs, store, lastWrite>>
candleVars == <<cfg, cpc, mi, tally, cache, step3, loc, hist>>
vars == <<mode, endStyle, runs, store, lastWrite,
          cfg, cpc, mi, tally, cache, step3, loc, hist>>

----------------------------------------------------------------------------
(* Bounds of the model *)

\* number of non-empty pages of the collection
NPages == 2
\* largest batch_size explored
MaxBatch == 2

\* records per page (the request's "limit")
PageSize == 2

Runs == {1, 2}

----------------------------------------------------------------------------
(* Python values *)

\* None: the absent cursor
None == 0

\* Python truth value of a cursor (None and "" are falsy)
Truthy(c) == c # None

\* 2 ** n
RECURSIVE Pow2(_)
Pow2(n) == IF n <= 0 THEN 1 ELSE 2 * Pow2(n - 1)

\* a minimum that is always its first argument
MinLeft(a, b) == a

Min(a, b) == IF a < b THEN a ELSE b

\* default max_retries of continue_fetch_markets
BulkMaxRetries == 5

\* a max_markets no run of the model reaches
Unlimited == 2 * NPages * PageSize + 2

----------------------------------------------------------------------------
(* The markets API: pages 1..NPages hold PageSize markets each. A request  *)
(* without cursor addresses page 1, the cursor k addresses page k.         *)

Tickers == 1 .. (NPages * PageSize)

\* a market record: its ticker and one optional field ("absent" when the
\* API omits it)
Market(t, x) == [ticker |-> t, extra |-> x]

\* the base value of the optional field, and the values a response may carry
BaseExtra == "a"
Extras == {"a", "absent"}

PageOf(cursor) == IF Truthy(cursor) THEN cursor ELSE 1

PageTickers(k) ==
    IF k \in 1 .. NPages
    THEN [j \in 1 .. PageSize |-> (k - 1) * PageSize + j]
    ELSE << >>

\* the "markets" list of page k, with the optional field as sent this time
PageMarkets(k, x) ==
    LET ts == PageTickers(k) IN [j \in 1 .. Len(ts) |-> Market(ts[j], x)]

\* the "cursor" of page k's response; an API that never ends its listing
\* sends the cursor of the first page after the last one ("cycle"), or the
\* cursor of the page it has just served ("repeat")
NextCursor(k, style) ==
    IF style = "repeat" THEN k
    ELSE IF k = NPages /\ style = "cycle" THEN 1
    ELSE IF k < NPages THEN k + 1
    ELSE IF k = NPages /\ style = "emptypage" THEN NPages + 1
    ELSE None

Cursors(style) ==
    {None} \cup (2 .. (IF style = "emptypage" THEN NPages + 1 ELSE NPages))

\* what one HTTP attempt can yield
Responses ==
    [st : {"ok"}, hint : {0}, x : Extras]
    \cup [st : {"apierror", "s500", "s4xx", "s5xx", "neterr", "unexpected"},
          hint : {0}, x : {BaseExtra}]
    \cup [st : {"s429"}, hint : {0, 5}, x : {BaseExtra}]

NoData == [present |-> FALSE, error |-> FALSE, markets |-> << >>, cursor |-> None]

\* resp.json(): the document of the page the request's params address; a
\* document with an "error" field may carry the page's fields as well
Payload(resp, params, style) ==
    [present |-> TRUE,
     error   |-> (resp.st = "apierror"),
     markets |-> PageMarkets(PageOf(params.cursor), resp.x),
     cursor  |-> NextCursor(PageOf(params.cursor), style)]

----------------------------------------------------------------------------
(* The persistence sink: UpdateOne({"ticker": t}, {"$set": m}, upsert=True) *)

Matches(col, t) == {i \in 1 .. Len(col) : col[i].ticker = t}

First(S) == CHOOSE i \in S : \A j \in S : i <= j

\* {"$set": m}: every field m carries is assigned, the others are kept
SetFields(doc, m) ==
    [ticker |-> m.ticker,
     extra  |-> IF m.extra = "absent" THEN doc.extra ELSE m.extra]

\* one upsert: the first matching document is updated, and a document is
\* inserted only when none matches
UpdateOne(col, m) ==
    LET hit == Matches(col, m.ticker) IN
    IF hit # {}
    THEN [col EXCEPT ![First(hit)] = SetFields(col[First(hit)], m)]
    ELSE Append(col, m)

RemoveAt(s, i) == SubSeq(s, 1, i - 1) \o SubSeq(s, i + 1, Len(s))

\* replace_one({"ticker": t}, doc, upsert=True)
ReplaceOne(col, doc) ==
    LET hit == {i \in 1 .. Len(col) : col[i].ticker = doc.ticker} IN
    IF hit # {} THEN [col EXCEPT ![First(hit)] = doc] ELSE Append(col, doc)

----------------------------------------------------------------------------
(* One bulk run: the locals of continue_fetch_markets /                    *)
(* fetch_markets_by_status, the position pc, and history fields.           *)

NoAttempt == [st |-> "none", hint |-> 0, attempt |-> 0]

\* params without a "cursor" entry (lines 19 and 45)
NoCursorParam == [has |-> FALSE, cursor |-> None]

\* a request that always carries a cursor parameter
RequestParamsAlways(cursor) == [has |-> TRUE, cursor |-> cursor]

\* lines 42-45: params["cursor"] = cursor if cursor, else no such entry
RequestParams(cursor) ==
    IF Truthy(cursor) THEN [has |-> TRUE, cursor |-> cursor]
    ELSE NoCursorParam

NewRun(fn, start_cursor, initial_count, max_markets, batch_size, max_retries) ==
    [fn            |-> fn,
     start_cursor  |-> start_cursor,
     initial_count |-> initial_count,
     max_markets   |-> max_markets,
     batch_size    |-> batch_size,
     max_retries   |-> max_retries,
     pc            |-> "start",
     cursor        |-> start_cursor,
     params        |-> NoCursorParam,
     total_fetched |-> initial_count,
     all_markets   |-> << >>,
     buffer        |-> << >>,
     retry_count   |-> 0,
     data          |-> NoData,
     idx           |-> 0,
     pending       |-> << >>,      \* ops of the bulk_write in progress
     writeError    |-> FALSE,      \* an op of that bulk_write failed
     failed        |-> {},         \* tickers of the ops of this call that failed
     after         |-> "none",     \* where write_batch returns to
     wait          |-> 0,          \* the time.sleep in progress
     slept         |-> FALSE,      \* time.sleep(0.1) since the last new page
     last          |-> NoAttempt,  \* the attempt that led to that sleep,
                                   \* or to the end of the page loop
     reported      |-> << >>,      \* cursors printed as "Last cursor"
     stop          |-> "none",     \* why the page loop ended (the first cause)
     requested     |-> << >>,      \* the params of every page asked for
     tries         |-> 0,          \* HTTP requests made for the current page
     sent          |-> << >>,      \* records handed to write_batch, in order
     flushed       |-> 0]          \* records handed to write_batch so far

IdleRun == [NewRun("continue", None, 0, 0, 1, BulkMaxRetries) EXCEPT !.pc = "idle"]

Stopped(rec) == rec.pc \in {"done", "crashed"}

\* line 38: cursor[:50] raises TypeError when start_cursor is None
StartRun(rec) ==
    IF rec.fn = "continue" /\ rec.cursor = None
    THEN [rec EXCEPT !.pc = "crashed", !.stop = "TypeError"]
    ELSE [rec EXCEPT !.pc = "loop"]

\* lines 41-49: the test of the page loop and the set-up of the retry loop
\* a page loop with no "total_fetched < max_markets" in its condition
LoopHeadUnbounded(rec) ==
    [rec EXCEPT !.pc = "request", !.retry_count = 0, !.data = NoData,
                !.params = RequestParams(rec.cursor),
                !.requested = Append(@, RequestParams(rec.cursor)),
                !.tries = 0, !.slept = FALSE]

LoopHead(rec) ==
    IF rec.total_fetched < rec.max_markets
    THEN [rec EXCEPT !.pc = "request", !.retry_count = 0, !.data = NoData,
                     !.params = RequestParams(rec.cursor),
                     !.requested = Append(@, RequestParams(rec.cursor)),
                     !.tries = 0, !.slept = FALSE]
    ELSE [rec EXCEPT !.pc = "final", !.stop = "max_markets"]

\* a page loop that does not look for an "error" field
AfterRetriesNoErrorCheck(rec) ==
    IF ~rec.data.present THEN [rec EXCEPT !.pc = "final", !.stop = "errors"]
    ELSE IF rec.data.markets = << >>
         THEN [rec EXCEPT !.pc = "final", !.stop = "nomarkets"]
    ELSE [rec EXCEPT !.pc = "append", !.idx = 1]

\* lines 88-99: what follows the retry loop
AfterRetries(rec) ==
    IF ~rec.data.present THEN [rec EXCEPT !.pc = "final", !.stop = "errors"]
    ELSE IF rec.data.error THEN [rec EXCEPT !.pc = "final", !.stop = "apierror"]
    ELSE IF rec.data.markets = << >>
         THEN [rec EXCEPT !.pc = "final", !.stop = "nomarkets"]
    ELSE [rec EXCEPT !.pc = "append", !.idx = 1]

\* lines 58 and 75: wait_time = 2 ** retry_count, retry_count already raised
BulkWait(retry_count) == Pow2(retry_count)

\* a retry loop that gives up without printing the cursor
RetryBulkSilent(rec, resp) ==
    LET rc == rec.retry_count + 1
        failed == [st |-> resp.st, hint |-> resp.hint, attempt |-> rc - 1]
    IN IF rc < rec.max_retries
       THEN [rec EXCEPT !.retry_count = rc, !.pc = "sleep",
                        !.wait = BulkWait(rc), !.last = failed]
       ELSE AfterRetries([rec EXCEPT !.retry_count = rc, !.last = failed])

\* a retry loop that allows one attempt more than max_retries
RetryBulkOneMore(rec, resp) ==
    LET rc == rec.retry_count + 1
        failed == [st |-> resp.st, hint |-> resp.hint, attempt |-> rc - 1]
    IN IF rc <= rec.max_retries
       THEN [rec EXCEPT !.retry_count = rc, !.pc = "sleep",
                        !.wait = BulkWait(rc), !.last = failed]
       ELSE AfterRetries([rec EXCEPT !.retry_count = rc, !.last = failed,
                                     !.reported = Append(@, rec.cursor)])

\* lines 55-65 and 71-82: a failed attempt that may be retried
RetryBulk(rec, resp) ==
    LET rc == rec.retry_count + 1
        failed == [st |-> resp.st, hint |-> resp.hint, attempt |-> rc - 1]
    IN IF rc < rec.max_retries
       THEN [rec EXCEPT !.retry_count = rc, !.pc = "sleep",
                        !.wait = BulkWait(rc), !.last = failed]
       ELSE AfterRetries([rec EXCEPT !.retry_count = rc, !.last = failed,
                                     !.reported = Append(@, rec.cursor)])

\* The status codes and exceptions continue_fetch_markets retries: 500
\* (line 55), and every RequestException, which raise_for_status raises for
\* any other 4xx/5xx (lines 67, 71)
BulkRetryable(st) == st \in {"s500", "s429", "s4xx", "s5xx", "neterr"}

\* a retry loop that treats an unexpected exception like a request error
AttemptContinueRetriesAll(rec, resp, style) ==
    LET r1 == [rec EXCEPT !.tries = @ + 1] IN
    IF BulkRetryable(resp.st) \/ resp.st = "unexpected" THEN RetryBulk(r1, resp)
    ELSE AfterRetries([r1 EXCEPT !.data = Payload(resp, rec.params, style)])

\* one pass of the retry loop of continue_fetch_markets (lines 50-86)
AttemptContinue(rec, resp, style) ==
    LET r1 == [rec EXCEPT !.tries = @ + 1] IN
    IF BulkRetryable(resp.st) THEN RetryBulk(r1, resp)
    ELSE IF resp.st = "unexpected"
         THEN AfterRetries([r1 EXCEPT
                  !.last = [st |-> resp.st, hint |-> resp.hint,
                            attempt |-> rec.retry_count],
                  !.reported = Append(@, rec.cursor)])
    ELSE AfterRetries([r1 EXCEPT !.data = Payload(resp, rec.params, style)])

\* the single attempt of fetch_markets_by_status (lines 32-46)
AttemptFresh(rec, resp, style) ==
    LET r1 == [rec EXCEPT !.tries = @ + 1] IN
    IF resp.st \in {"ok", "apierror"}
    THEN AfterRetries([r1 EXCEPT !.data = Payload(resp, rec.params, style)])
    ELSE [r1 EXCEPT !.pc = "final", !.stop = "errors",
                    !.last = [st |-> resp.st, hint |-> resp.hint, attempt |-> 0]]

Attempt(rec, resp, style) ==
    IF rec.fn = "continue" THEN AttemptContinue(rec, resp, style)
    ELSE AttemptFresh(rec, resp, style)

\* a retry that has lost the cursor parameter
WakeWithoutCursor(rec) ==
    [rec EXCEPT !.pc = "request", !.wait = 0, !.last = NoAttempt,
                !.params = NoCursorParam]

\* lines 60/77: time.sleep(wait_time) returns and the loop continues
Wake(rec) == [rec EXCEPT !.pc = "request", !.wait = 0, !.last = NoAttempt]

\* write_batch (lines 27-36): nothing to do for an empty batch, else the
\* batch becomes the ops of one unordered bulk_write
WriteBatch(rec, batch, after) ==
    IF batch = << >> THEN [rec EXCEPT !.pc = after]
    ELSE [rec EXCEPT !.pc = "writing", !.pending = batch, !.after = after,
                     !.writeError = FALSE, !.failed = {},
                     !.sent = @ \o batch,
                     !.flushed = @ + Len(batch)]

\* an append that flushes only once the buffer exceeds batch_size
AppendMarketLate(rec) ==
    IF rec.idx > Len(rec.data.markets) \/ rec.total_fetched >= rec.max_markets
    THEN [rec EXCEPT !.pc = "advance"]
    ELSE LET m == rec.data.markets[rec.idx]
             r1 == [rec EXCEPT !.buffer = Append(@, m),
                               !.all_markets = Append(@, m),
                               !.total_fetched = @ + 1,
                               !.idx = @ + 1]
         IN IF Len(r1.buffer) > r1.batch_size
            THEN WriteBatch(r1, r1.buffer, "clear")
            ELSE r1

\* an append that leaves total_fetched as it is
AppendMarketUncounted(rec) ==
    IF rec.idx > Len(rec.data.markets) \/ rec.total_fetched >= rec.max_markets
    THEN [rec EXCEPT !.pc = "advance"]
    ELSE LET m == rec.data.markets[rec.idx]
             r1 == [rec EXCEPT !.buffer = Append(@, m),
                               !.all_markets = Append(@, m),
                               !.idx = @ + 1]
         IN IF Len(r1.buffer) >= r1.batch_size
            THEN WriteBatch(r1, r1.buffer, "clear")
            ELSE r1

\* lines 101-110: one pass of the loop over the page's markets
AppendMarket(rec) ==
    IF rec.idx > Len(rec.data.markets) \/ rec.total_fetched >= rec.max_markets
    THEN [rec EXCEPT !.pc = "advance"]
    ELSE LET m == rec.data.markets[rec.idx]
             r1 == [rec EXCEPT !.buffer = Append(@, m),
                               !.all_markets = Append(@, m),
                               !.total_fetched = @ + 1,
                               !.idx = @ + 1]
         IN IF Len(r1.buffer) >= r1.batch_size
            THEN WriteBatch(r1, r1.buffer, "clear")
            ELSE r1

\* one op of the bulk_write is executed (ordered=False: in any order)
TakeOp(rec, i, ok) ==
    [rec EXCEPT !.pending = RemoveAt(@, i),
                !.writeError = @ \/ ~ok,
                !.failed = IF ok THEN @ ELSE @ \cup {rec.pending[i].ticker}]

\* write_batch of test_1.py (lines 17-20): one replace_one after the other;
\* an exception of replace_one leaves the loop and the function, with the
\* rest of the batch not attempted
ReplaceNext(rec, ok) ==
    IF ok THEN [rec EXCEPT !.pending = Tail(@)]
    ELSE [rec EXCEPT !.pending = Tail(@), !.writeError = TRUE,
                     !.failed = @ \cup {rec.pending[1].ticker},
                     !.pc = "crashed",
                     !.stop = IF @ = "none" THEN "WriteError" ELSE @]

\* line 124: return all_markets; the locals of the retry loop and of the
\* page in hand end with the call
Returned(rec) ==
    [rec EXCEPT !.pc = "done", !.after = "none", !.retry_count = 0,
                !.tries = 0, !.data = NoData, !.idx = 0, !.last = NoAttempt]

\* a flush that leaves the buffer as it is
WriteDoneKeepsBuffer(rec) ==
    IF rec.writeError THEN [rec EXCEPT !.pc = "crashed",
                     !.stop = IF @ = "none" THEN "BulkWriteError" ELSE @]
    ELSE IF rec.after = "clear"
         THEN [rec EXCEPT !.pc = "append", !.after = "none"]
    ELSE Returned(rec)

\* bulk_write returns, or raises BulkWriteError out of the function; after
\* the flush of line 109 the buffer is cleared (line 110)
WriteDone(rec) ==
    IF rec.writeError THEN [rec EXCEPT !.pc = "crashed",
                     !.stop = IF @ = "none" THEN "BulkWriteError" ELSE @]
    ELSE IF rec.after = "clear"
         THEN [rec EXCEPT !.pc = "append", !.buffer = << >>, !.after = "none"]
    ELSE Returned(rec)

\* a page loop that goes on to the next page at once
AdvanceCursorNoDelay(rec) ==
    LET c == rec.data.cursor IN
    IF ~Truthy(c) THEN [rec EXCEPT !.cursor = c, !.pc = "final", !.stop = "nocursor"]
    ELSE [rec EXCEPT !.cursor = c, !.pc = "loop"]

\* lines 112-119: adopt the page's cursor and stop when there is none
AdvanceCursor(rec) ==
    LET c == rec.data.cursor IN
    IF ~Truthy(c) THEN [rec EXCEPT !.cursor = c, !.pc = "final", !.stop = "nocursor"]
    ELSE IF rec.fn = "continue" THEN [rec EXCEPT !.cursor = c, !.pc = "delay"]
    ELSE [rec EXCEPT !.cursor = c, !.pc = "loop"]

\* line 119: time.sleep(0.1) returns
Delay(rec) == [rec EXCEPT !.pc = "loop", !.slept = TRUE]

\* lines 121-124: the last flush and the return
Final(rec) ==
    IF rec.buffer = << >> THEN Returned(rec)
    ELSE WriteBatch([rec EXCEPT !.last = NoAttempt], rec.buffer, "done")

----------------------------------------------------------------------------
(* The candlestick fetcher, etl/3_fetch_candlesticks.py.                   *)
(* Times are whole numbers of an abstract unit; 0 stands for a missing     *)
(* time and "" for a missing string (both falsy in Python).                *)

\* EXTEND_DAYS_BEFORE, EXTEND_DAYS_AFTER and CHUNK_DAYS, in time units
ExtendBefore == 1
ExtendAfter == 1
ChunkDays == 2

\* defaults of fetch_candlesticks_chunked and get_series_ticker_for_event
ChunkMaxRetries == 3
RetryDelay == 1

TruthyStr(s) == s # ""

Events == {"E1", "E2"}

MarketRec(t, e, s, o, c) ==
    [ticker |-> t, event_ticker |-> e, series_ticker |-> s,
     open_time |-> o, close_time |-> c]

\* a run of main(): the markets found in step_22, PERIOD_INTERVALS, the
\* current time, and whether the API's candles carry period_interval
Config(ms, ivs, now, tagged) ==
    [markets |-> ms, intervals |-> ivs, now |-> now, tagged |-> tagged]

Configs ==
    { \* two markets of one event, none with a series_ticker of its own
      Config(<< MarketRec("T1", "E1", "", 3, 4), MarketRec("T2", "E1", "", 3, 4) >>,
             << 1440 >>, 1, FALSE),
      \* the first market carries its series_ticker
      Config(<< MarketRec("T1", "E1", "S1", 3, 4), MarketRec("T2", "E1", "", 3, 4) >>,
             << 1440 >>, 1, FALSE),
      \* a market that is still open (no close_time), then a complete one
      Config(<< MarketRec("T1", "E1", "", 3, None), MarketRec("T2", "E2", "", 3, 4) >>,
             << 1440 >>, 6, FALSE),
      \* a market whose series_ticker is its event_ticker
      Config(<< MarketRec("T1", "E1", "E1", 3, 4) >>, << 1440 >>, 1, TRUE),
      \* two intervals
      Config(<< MarketRec("T1", "E1", "", 3, 4) >>, << 1440, 60 >>, 6, TRUE),
      Config(<< MarketRec("T1", "E1", "", 3, 4) >>, << 1440, 60 >>, 1, FALSE),
      \* a record whose close_time lies before its open_time
      Config(<< MarketRec("T1", "E1", "S1", 6, 1) >>, << 1440 >>, 1, FALSE),
      \* a complete market, then one of the same event that is still open
      Config(<< MarketRec("T1", "E1", "", 3, 4), MarketRec("T2", "E1", "", 3, None) >>,
             << 1440 >>, 1, FALSE),
      \* records without ticker, without event_ticker, without open_time
      Config(<< MarketRec("", "E1", "S1", 3, 4), MarketRec("T2", "", "S1", 3, 4),
                MarketRec("T3", "E1", "S1", None, 4) >>,
             << 1440 >>, 1, FALSE) }

\* a candlestick as the API sends it; period_interval is 0 when the API
\* does not send the field
Candle(ts, iv, p) == [end_period_ts |-> ts, period_interval |-> iv, price |-> p]

EmptyCache == [e \in {} |-> ""]

\* dict.get(k): None ("") when there is no entry
CacheGet(c, k) == IF k \in DOMAIN c THEN c[k] ELSE ""

\* c[k] = v
CachePut(c, k, v) == [x \in (DOMAIN c) \cup {k} |-> IF x = k THEN v ELSE c[x]]

----------------------------------------------------------------------------
(* Deduplication and ordering, main() lines 254-269 *)

\* line 261: key = (ts, interval) if ts and interval else ts
CandleKey(c) ==
    IF Truthy(c.end_period_ts) /\ Truthy(c.period_interval)
    THEN << c.end_period_ts, c.period_interval >>
    ELSE << c.end_period_ts >>

\* line 262: the truth value of the key (a tuple is truthy, ts = 0/None not)
KeyTruthy(c) ==
    (Truthy(c.end_period_ts) /\ Truthy(c.period_interval)) \/ Truthy(c.end_period_ts)

\* lines 256-264: keep the first candle of every truthy key
RECURSIVE Unique(_, _)
Unique(cs, seen) ==
    IF cs = << >> THEN << >>
    ELSE LET c == Head(cs) IN
         IF KeyTruthy(c) /\ CandleKey(c) \notin seen
         THEN << c >> \o Unique(Tail(cs), seen \cup {CandleKey(c)})
         ELSE Unique(Tail(cs), seen)

\* list.sort is stable: c goes after every element whose key is not greater
RECURSIVE InsertSorted(_, _)
InsertSorted(c, sorted) ==
    IF sorted = << >> THEN << c >>
    ELSE IF c.end_period_ts < Head(sorted).end_period_ts
         THEN << c >> \o sorted
         ELSE << Head(sorted) >> \o InsertSorted(c, Tail(sorted))

\* line 267: unique_candlesticks.sort(key=end_period_ts)
RECURSIVE SortByTs(_)
SortByTs(cs) ==
    IF cs = << >> THEN << >>
    ELSE InsertSorted(cs[Len(cs)], SortByTs(SubSeq(cs, 1, Len(cs) - 1)))

\* the merge without its sort
DedupUnsorted(cs) == Unique(cs, {})

DedupSort(cs) == SortByTs(Unique(cs, {}))

----------------------------------------------------------------------------
(* Retry waits of the candlestick fetcher *)

\* a backoff that starts at twice retry_delay
BackoffDoubled(attempt) == RetryDelay * Pow2(attempt + 1)

\* lines 55 and 70 (151, 155 in the lookup): retry_delay * (2 ** attempt)
BackoffWait(attempt) == RetryDelay * Pow2(attempt)

\* a rate-limit wait that does not read the header
RateLimitBackoff(attempt, hint) == BackoffWait(attempt)

\* lines 47 and 137: int(headers.get("Retry-After", retry_delay * 2 ** attempt))
RateLimitWait(attempt, hint) ==
    IF hint # None THEN hint ELSE RetryDelay * Pow2(attempt)

\* what one HTTP attempt of the candlestick fetcher can yield: "ok" with the
\* candles of the chunk (full) or with none, resp. with a series_ticker or
\* none for the lookup
CandleResponses ==
    [st : {"ok"}, hint : {None}, full : BOOLEAN, series : {"", "S1"}]
    \cup [st : {"s429"}, hint : {None, 5}, full : {FALSE}, series : {""}]
    \cup [st : {"s4xx", "s5xx", "neterr", "unexpected"},
          hint : {None}, full : {FALSE}, series : {""}]

\* the responses a chunk request can tell apart
ChunkResponses == {resp \in CandleResponses : resp.series = ""}

\* the responses a lookup can tell apart
LookupResponses == {resp \in CandleResponses : ~resp.full}

\* the candles the API holds for a chunk: one at each end of the window,
\* newest first, priced by the chunk they came with
ChunkData(chunk_start, chunk_end, interval, tagged) ==
    LET iv == IF tagged THEN interval ELSE None IN
    << Candle(chunk_end, iv, chunk_start), Candle(chunk_start, iv, chunk_start) >>

----------------------------------------------------------------------------
(* The run of main(): one action per step of the loops.                    *)

NoMarket == MarketRec("", "", "", None, None)

NoLocals ==
    [market            |-> NoMarket,
     series_ticker     |-> "",
     candidates        |-> << >>,    \* series_tickers_to_try
     ci                |-> 0,        \* candidates taken from that list
     ii                |-> 0,        \* PERIOD_INTERVALS taken
     all_candlesticks  |-> << >>,    \* of main(), per candidate
     candlesticks      |-> << >>,    \* None or the merged result
     successful_series |-> "",
     start_ts          |-> 0,
     end_ts            |-> 0,
     chunk_start       |-> 0,
     chunk_end         |-> 0,
     attempt           |-> 0,
     tries             |-> 0,        \* HTTP requests made for the current
                                     \* chunk or lookup
     chunk_candles     |-> << >>,
     acc               |-> << >>,    \* all_candlesticks of the chunked fetch
     wait              |-> 0,        \* the time.sleep in progress
     last              |-> NoAttempt] \* the attempt that led to that sleep,
                                      \* or to the end of the retry loop

NoHist ==
    [asked       |-> << >>,       \* chunk windows requested by this fetch call
     answered    |-> << >>,       \* per chunk of this fetch call whose request
                                  \* succeeded: its window and the candles sent
     fetched     |-> << >>,       \* per candidate tried: what it returned
     cacheBefore |-> EmptyCache,  \* the cache when the candidates were listed
     fanout      |-> << >>,       \* per fetch call made for the candidate in
                                  \* hand: its interval, chunks and result
     gap         |-> "first",     \* "asked" from a chunk's request on, until
                                  \* the time.sleep(0.1) ("delayed")
     exhausted   |-> {},          \* markets (by index) with a chunk given up
     errored     |-> {}]          \* markets (by index) counted as errors

ZeroTally == [success_count |-> 0, skip_count |-> 0, error_count |-> 0]

IdleCfg == Config(<< >>, << >>, 0, FALSE)

CandlesIdle ==
    /\ cfg = IdleCfg /\ cpc = "idle" /\ mi = 0 /\ tally = ZeroTally
    /\ cache = EmptyCache /\ step3 = << >> /\ loc = NoLocals /\ hist = NoHist

----------------------------------------------------------------------------
(* Scenarios of bulk runs.                                                 *)
(*   "resume":     run 1, and once it has returned, run 2 started by the   *)
(*                 operator at the cursor run 1 stopped at                 *)
(*   "concurrent": two runs started at the cursor of the last page, on the *)
(*                 same collection, interleaved                            *)
(*   "paired":     two runs that differ only in initial_count, driven in   *)
(*                 lockstep by the same API and store behaviour            *)
(*   "sink":       one write_batch call of test_1.py (InitSink below)      *)

BatchSizes == 1 .. MaxBatch

\* a batch_size no single page fills
LargeBatch == PageSize + 1
InitialCounts == {0, 1}
MaxMarkets == {1, 2, Unlimited}

FreshRuns ==
    {NewRun("fresh", None, 0, mm, bs, 1) :
        mm \in MaxMarkets, bs \in BatchSizes \cup {LargeBatch}}

ContinueRuns(style, counts) ==
    {NewRun("continue", c, ic, mm, bs, BulkMaxRetries) :
        c \in Cursors(style), ic \in counts,
        mm \in MaxMarkets, bs \in BatchSizes \cup {LargeBatch}}

NoRecord == Market(0, "none")

InitBulk ==
    /\ mode \in {"resume", "concurrent", "paired"}
    /\ endStyle \in {"nocursor", "emptypage"}
    /\ store = << >>
    /\ lastWrite = [t \in Tickers |-> NoRecord]
    /\ CandlesIdle
    /\ \/ /\ mode = "resume"
          /\ \E r1 \in FreshRuns \cup ContinueRuns(endStyle, {0}) :
                runs = [r \in Runs |-> IF r = 1 THEN r1 ELSE IdleRun]
       \/ /\ mode = "concurrent"
          /\ \E bs \in BatchSizes :
                runs = [r \in Runs |->
                          NewRun("continue", NPages, 0, Unlimited, bs, 1)]
       \/ /\ mode = "paired"
          /\ \E c \in Cursors(endStyle) \ {None}, mm \in MaxMarkets,
                bs \in BatchSizes, ic1, ic2 \in InitialCounts :
                /\ ic1 < ic2
                /\ runs = [r \in Runs |->
                             NewRun("continue", c, IF r = 1 THEN ic1 ELSE ic2,
                                    mm, bs, BulkMaxRetries)]

\* the store and the history after run r's op m was executed (or failed)
StoreAfter(col, m, ok) == IF ok THEN UpdateOne(col, m) ELSE col

WriteAfter(lw, m, ok) == IF ok THEN [lw EXCEPT ![m.ticker] = m] ELSE lw

\* the store after the replace_one of test_1.py (line 20) for record m
StoreAfterReplace(col, m, ok) == IF ok THEN ReplaceOne(col, m) ELSE col

\* the ops the write in progress may execute next: any op of an unordered
\* bulk_write, the first remaining record of the loop of test_1.py
OpChoices(rec) ==
    IF rec.fn = "test1" THEN {i \in {1} : i <= Len(rec.pending)}
    ELSE 1 .. Len(rec.pending)

\* the responses of a scenario: in "resume" the API returns the same page
\* for the same cursor
ResponsesIn(m) ==
    IF m \in {"resume", "endless"} THEN {resp \in Responses : resp.x = BaseExtra}
    ELSE Responses

Start(r) ==
    /\ mode # "paired" /\ runs[r].pc = "start"
    /\ runs' = [runs EXCEPT ![r] = StartRun(@)]
    /\ UNCHANGED <<mode, endStyle, store, lastWrite, candleVars>>

NextPage(r) ==
    /\ mode # "paired" /\ runs[r].pc = "loop"
    /\ runs' = [runs EXCEPT ![r] = LoopHead(@)]
    /\ UNCHANGED <<mode, endStyle, store, lastWrite, candleVars>>

Request(r) ==
    /\ mode # "paired" /\ runs[r].pc = "request"
    /\ \E resp \in ResponsesIn(mode) :
          runs' = [runs EXCEPT ![r] = Attempt(@, resp, endStyle)]
    /\ UNCHANGED <<mode, endStyle, store, lastWrite, candleVars>>

Sleep(r) ==
    /\ mode # "paired" /\ runs[r].pc = "sleep"
    /\ runs' = [runs EXCEPT ![r] = Wake(@)]
    /\ UNCHANGED <<mode, endStyle, store, lastWrite, candleVars>>

AppendStep(r) ==
    /\ mode # "paired" /\ runs[r].pc = "append"
    /\ runs' = [runs EXCEPT ![r] = AppendMarket(@)]
    /\ UNCHANGED <<mode, endStyle, store, lastWrite, candleVars>>

Upsert(r) ==
    /\ mode # "paired" /\ runs[r].pc = "writing"
    /\ \E i \in OpChoices(runs[r]), ok \in BOOLEAN :
          /\ IF runs[r].fn = "test1"
             THEN /\ runs' = [runs EXCEPT ![r] = ReplaceNext(@, ok)]
                  /\ store' = StoreAfterReplace(store, runs[r].pending[i], ok)
             ELSE /\ runs' = [runs EXCEPT ![r] = TakeOp(@, i, ok)]
                  /\ store' = StoreAfter(store, runs[r].pending[i], ok)
          /\ lastWrite' = WriteAfter(lastWrite, runs[r].pending[i], ok)
    /\ UNCHANGED <<mode, endStyle, candleVars>>

BatchWritten(r) ==
    /\ mode # "paired" /\ runs[r].pc = "writing" /\ runs[r].pending = << >>
    /\ runs' = [runs EXCEPT ![r] = WriteDone(@)]
    /\ UNCHANGED <<mode, endStyle, store, lastWrite, candleVars>>

Advance(r) ==
    /\ mode # "paired" /\ runs[r].pc = "advance"
    /\ runs' = [runs EXCEPT ![r] = AdvanceCursor(@)]
    /\ UNCHANGED <<mode, endStyle, store, lastWrite, candleVars>>

PageDelay(r) ==
    /\ mode # "paired" /\ runs[r].pc = "delay"
    /\ runs' = [runs EXCEPT ![r] = Delay(@)]
    /\ UNCHANGED <<mode, endStyle, store, lastWrite, candleVars>>

Return(r) ==
    /\ mode # "paired" /\ runs[r].pc = "final"
    /\ runs' = [runs EXCEPT ![r] = Final(@)]
    /\ UNCHANGED <<mode, endStyle, store, lastWrite, candleVars>>

\* the operator starts the next run where run 1 stopped: with the same
\* script when run 1 never left the first page, else with
\* continue_fetch_markets(start_cursor = the cursor at stop time,
\* initial_count = the count at stop time)
ResumedRun(rec) ==
    IF rec.cursor = None /\ rec.requested # << >>
    THEN NewRun("fresh", None, 0, Unlimited, rec.batch_size, 1)
    ELSE NewRun("continue", rec.cursor, rec.total_fetched, Unlimited,
                rec.batch_size, rec.max_retries)

EndOfCollection(rec) == rec.stop \in {"nocursor", "nomarkets"}

Resume ==
    /\ mode = "resume" /\ runs[2].pc = "idle"
    /\ runs[1].pc = "done" /\ ~EndOfCollection(runs[1])
    /\ runs' = [runs EXCEPT ![2] = ResumedRun(runs[1])]
    /\ UNCHANGED <<mode, endStyle, store, lastWrite, candleVars>>

(* Two runs in lockstep: each step hands both runs the same response of    *)
(* the API and the same behaviour of the store.                            *)

\* the inputs the two runs can tell apart at their positions
PairInputs(rs) ==
    LET asks   == \E r \in Runs : rs[r].pc = "request"
        writes == \E r \in Runs : rs[r].pc = "writing" /\ rs[r].pending # << >>
    IN [resp : IF asks THEN Responses
                ELSE {[st |-> "ok", hint |-> 0, x |-> BaseExtra]},
        i    : IF writes THEN 1 .. MaxBatch ELSE {1},
        ok   : IF writes THEN BOOLEAN ELSE {TRUE}]

\* whether the run can take a step on this input
Accepts(rec, in) ==
    /\ ~Stopped(rec)
    /\ (rec.pc = "writing" /\ rec.pending # << >>) => in.i <= Len(rec.pending)

\* the step of the run at its position
RunStep(rec, in, style) ==
    CASE rec.pc = "start"   -> StartRun(rec)
      [] rec.pc = "loop"    -> LoopHead(rec)
      [] rec.pc = "request" -> Attempt(rec, in.resp, style)
      [] rec.pc = "sleep"   -> Wake(rec)
      [] rec.pc = "append"  -> AppendMarket(rec)
      [] rec.pc = "writing" -> IF rec.pending # << >>
                               THEN TakeOp(rec, in.i, in.ok)
                               ELSE WriteDone(rec)
      [] rec.pc = "advance" -> AdvanceCursor(rec)
      [] rec.pc = "delay"   -> Delay(rec)
      [] rec.pc = "final"   -> Final(rec)
      [] OTHER              -> rec

\* the op the step executes on the store, if any
StepOps(rec, in) ==
    IF rec.pc = "writing" /\ rec.pending # << >> /\ in.i <= Len(rec.pending)
    THEN << rec.pending[in.i] >>
    ELSE << >>

RECURSIVE ApplyOps(_, _, _)
ApplyOps(col, ops, ok) ==
    IF ops = << >> THEN col
    ELSE ApplyOps(StoreAfter(col, ops[1], ok), Tail(ops), ok)

RECURSIVE NoteOps(_, _, _)
NoteOps(lw, ops, ok) ==
    IF ops = << >> THEN lw
    ELSE NoteOps(WriteAfter(lw, ops[1], ok), Tail(ops), ok)

PairStep ==
    /\ mode = "paired"
    /\ \E in \in PairInputs(runs) :
          /\ \E r \in Runs : Accepts(runs[r], in)
          /\ \A r \in Runs : Stopped(runs[r]) \/ Accepts(runs[r], in)
          /\ runs' = [r \in Runs |-> RunStep(runs[r], in, endStyle)]
          /\ LET ops == StepOps(runs[1], in) \o StepOps(runs[2], in) IN
                /\ store' = ApplyOps(store, ops, in.ok)
                /\ lastWrite' = NoteOps(lastWrite, ops, in.ok)
    /\ UNCHANGED <<mode, endStyle, candleVars>>

NextBulk ==
    \/ \E r \in Runs : Start(r)
    \/ \E r \in Runs : NextPage(r)
    \/ \E r \in Runs : Request(r)
    \/ \E r \in Runs : Sleep(r)
    \/ \E r \in Runs : AppendStep(r)
    \/ \E r \in Runs : Upsert(r)
    \/ \E r \in Runs : BatchWritten(r)
    \/ \E r \in Runs : Advance(r)
    \/ \E r \in Runs : PageDelay(r)
    \/ \E r \in Runs : Return(r)
    \/ Resume
    \/ PairStep

----------------------------------------------------------------------------
(* The candlestick run *)

BulkIdle ==
    /\ mode = "none" /\ endStyle = "nocursor" /\ store = << >>
    /\ runs = [r \in Runs |-> IdleRun]
    /\ lastWrite = [t \in Tickers |-> NoRecord]

InitCandles ==
    /\ BulkIdle
    /\ cfg \in Configs
    /\ cpc = "market" /\ mi = 0 /\ tally = ZeroTally
    /\ cache = EmptyCache /\ step3 = << >> /\ loc = NoLocals /\ hist = NoHist

\* a check that lets a market without close_time through
HasRequiredFieldsButClose(m) ==
    /\ TruthyStr(m.ticker) /\ TruthyStr(m.event_ticker)
    /\ Truthy(m.open_time)

\* line 206: all([ticker, event_ticker, open_time, close_time])
HasRequiredFields(m) ==
    /\ TruthyStr(m.ticker) /\ TruthyStr(m.event_ticker)
    /\ Truthy(m.open_time) /\ Truthy(m.close_time)

\* a resolution that does not consult the cache
KnownSeriesOfRecord(m, c) == m.series_ticker

\* lines 212-214: the id of the record, else the cache entry
KnownSeries(m, c) ==
    IF TruthyStr(m.series_ticker) THEN m.series_ticker
    ELSE CacheGet(c, m.event_ticker)

\* lines 200-216: the next market of the list is taken
NextMarket ==
    /\ cpc = "market" /\ mi < Len(cfg.markets)
    /\ LET m == cfg.markets[mi + 1] IN
       /\ mi' = mi + 1
       /\ IF ~HasRequiredFields(m)
          THEN /\ tally' = [tally EXCEPT !.skip_count = @ + 1]
               /\ UNCHANGED <<cpc, loc>>
          ELSE /\ loc' = [NoLocals EXCEPT !.market = m,
                                          !.series_ticker = KnownSeries(m, cache)]
               /\ cpc' = IF TruthyStr(KnownSeries(m, cache))
                         THEN "candidates" ELSE "lookup"
               /\ UNCHANGED tally
    /\ hist' = [hist EXCEPT !.asked = << >>, !.answered = << >>,
                            !.fetched = << >>,
                            !.cacheBefore = EmptyCache, !.fanout = << >>]
    /\ UNCHANGED <<cfg, cache, step3, bulkVars>>

\* lines 295-301: the summary
Summary ==
    /\ cpc = "market" /\ mi = Len(cfg.markets)
    /\ cpc' = "done"
    /\ UNCHANGED <<cfg, mi, tally, cache, step3, loc, hist, bulkVars>>

\* a cache that takes whatever the lookup returned
CacheResolvedAlways(c, event_ticker, series_ticker) ==
    CachePut(c, event_ticker, series_ticker)

\* lines 217-218: a resolved id is cached, a failed lookup is not
CacheResolved(c, event_ticker, series_ticker) ==
    IF TruthyStr(series_ticker) THEN CachePut(c, event_ticker, series_ticker)
    ELSE c

\* the locals after one more requests.get
Tried(l) == [l EXCEPT !.tries = @ + 1]

\* the response of the pass in progress
Got(resp) == [st |-> resp.st, hint |-> resp.hint, attempt |-> loc.attempt]

\* get_series_ticker_for_event returns s (None = "") after the attempt got;
\* l holds the locals at that point
LookupReturns(l, s, got) ==
    /\ loc' = [l EXCEPT !.series_ticker = s, !.wait = 0, !.last = got]
    /\ cache' = CacheResolved(cache, loc.market.event_ticker, s)
    /\ cpc' = "candidates"

LookupSleeps(w, resp) ==
    /\ loc' = [Tried(loc) EXCEPT !.wait = w, !.last = Got(resp)]
    /\ cpc' = "lookup_sleep"
    /\ UNCHANGED cache

\* one pass of the loop of get_series_ticker_for_event (lines 131-160)
LookupAttempt ==
    /\ cpc = "lookup"
    /\ \E resp \in LookupResponses :
          IF resp.st = "s429"
          THEN LookupSleeps(RateLimitWait(loc.attempt, resp.hint), resp)
          ELSE IF resp.st = "ok" /\ TruthyStr(resp.series)
          THEN LookupReturns(Tried(loc), resp.series, Got(resp))
          ELSE IF resp.st = "unexpected"
          THEN LookupReturns(Tried(loc), "", Got(resp))
          ELSE IF loc.attempt < ChunkMaxRetries - 1
          THEN LookupSleeps(BackoffWait(loc.attempt), resp)
          ELSE LookupReturns(Tried(loc), "", Got(resp))
    /\ UNCHANGED <<cfg, mi, tally, step3, hist, bulkVars>>

\* time.sleep returns: the next pass, or the end of the loop (return None)
LookupWake ==
    /\ cpc = "lookup_sleep"
    /\ IF loc.attempt + 1 < ChunkMaxRetries
       THEN /\ loc' = [loc EXCEPT !.attempt = @ + 1, !.wait = 0, !.last = NoAttempt]
            /\ cpc' = "lookup"
            /\ UNCHANGED cache
       ELSE LookupReturns(loc, "", loc.last)
    /\ UNCHANGED <<cfg, mi, tally, step3, hist, bulkVars>>

\* a candidate list that starts with the event_ticker
CandidateListEventFirst(series_ticker, event_ticker) ==
    << event_ticker >>
        \o (IF TruthyStr(series_ticker) THEN << series_ticker >> ELSE << >>)

\* lines 221-224: series_tickers_to_try
CandidateList(series_ticker, event_ticker) ==
    (IF TruthyStr(series_ticker) THEN << series_ticker >> ELSE << >>)
        \o << event_ticker >>

\* lines 220-227
ListCandidates ==
    /\ cpc = "candidates"
    /\ loc' = [loc EXCEPT
                 !.candidates = CandidateList(loc.series_ticker,
                                              loc.market.event_ticker),
                 !.ci = 0, !.candlesticks = << >>, !.successful_series = "",
                 !.attempt = 0, !.last = NoAttempt]
    /\ hist' = [hist EXCEPT !.cacheBefore = cache]
    /\ cpc' = "candidate"
    /\ UNCHANGED <<cfg, mi, tally, cache, step3, bulkVars>>

\* lines 229-234: the next candidate, or the end of the list
NextCandidate ==
    /\ cpc = "candidate"
    /\ IF loc.ci < Len(loc.candidates)
       THEN /\ loc' = [loc EXCEPT !.ci = @ + 1, !.all_candlesticks = << >>,
                                  !.ii = 0]
            /\ hist' = [hist EXCEPT !.fanout = << >>]
            /\ cpc' = "interval"
       ELSE /\ cpc' = "store"
            /\ UNCHANGED <<loc, hist>>
    /\ UNCHANGED <<cfg, mi, tally, cache, step3, bulkVars>>

\* fetch_candlesticks lines 101-110: the window of the fetch
WindowStart(m) == m.open_time - ExtendBefore

\* a window that is never extended to the current time
WindowEndNoNow(m, now) == m.close_time + ExtendAfter

WindowEnd(m, now) ==
    IF m.close_time + ExtendAfter < now THEN now
    ELSE m.close_time + ExtendAfter

\* lines 236-249 and 96-120, 24-28: the next interval is fetched, or the
\* candidate's fetch is complete
NextInterval ==
    /\ cpc = "interval"
    /\ IF loc.ii < Len(cfg.intervals)
       THEN /\ loc' = [loc EXCEPT
                         !.ii = @ + 1,
                         !.start_ts = WindowStart(loc.market),
                         !.end_ts = WindowEnd(loc.market, cfg.now),
                         !.chunk_start = WindowStart(loc.market),
                         !.acc = << >>]
            /\ hist' = [hist EXCEPT !.asked = << >>, !.answered = << >>]
            /\ cpc' = "chunk"
       ELSE /\ cpc' = "merge"
            /\ UNCHANGED <<loc, hist>>
    /\ UNCHANGED <<cfg, mi, tally, cache, step3, bulkVars>>

\* a result that replaces what the earlier intervals returned
AddCandlesLast(all_candlesticks, candles) ==
    IF candles # << >> THEN candles ELSE all_candlesticks

\* lines 250-251: if candles: all_candlesticks.extend(candles)
AddCandles(all_candlesticks, candles) ==
    IF candles # << >> THEN all_candlesticks \o candles ELSE all_candlesticks

\* lines 30-40: the next chunk of the window; after the last one the fetch
\* returns and main() adds its candles (lines 250-252)
NextChunk ==
    /\ cpc = "chunk"
    /\ IF loc.chunk_start < loc.end_ts
       THEN /\ loc' = [loc EXCEPT
                         !.chunk_end = Min(loc.chunk_start + ChunkDays, loc.end_ts),
                         !.attempt = 0, !.tries = 0, !.chunk_candles = << >>]
            /\ hist' = [hist EXCEPT
                          !.asked = Append(@, << loc.chunk_start,
                                 Min(loc.chunk_start + ChunkDays, loc.end_ts) >>),
                          !.gap = "asked"]
            /\ cpc' = "attempt"
       ELSE /\ loc' = [loc EXCEPT !.all_candlesticks = AddCandles(@, loc.acc),
                                  !.acc = << >>]
            /\ hist' = [hist EXCEPT !.fanout =
                          Append(@, [interval |-> cfg.intervals[loc.ii],
                                     asked    |-> hist.asked,
                                     candles  |-> loc.acc])]
            /\ cpc' = "interval"
    /\ UNCHANGED <<cfg, mi, tally, cache, step3, bulkVars>>

\* a given-up chunk that ends the fetch of its window
ChunkGivenUpEndsFetch(l, got) ==
    /\ loc' = [l EXCEPT !.chunk_candles = << >>, !.wait = 0, !.last = got,
                        !.chunk_end = loc.end_ts]
    /\ hist' = [hist EXCEPT !.exhausted = @ \cup {mi}]
    /\ cpc' = "chunk_end"

\* the retry loop ends without candles after the attempt got: the chunk is
\* given up; l holds the locals at that point
ChunkGivenUp(l, got) ==
    /\ loc' = [l EXCEPT !.chunk_candles = << >>, !.wait = 0, !.last = got]
    /\ hist' = [hist EXCEPT !.exhausted = @ \cup {mi}]
    /\ cpc' = "chunk_end"

\* a retry loop that sleeps and goes on only after a 429 or a 5xx
ChunkSleepsUnless4xx(w, resp) ==
    IF resp.st = "s4xx" THEN ChunkGivenUp(Tried(loc), Got(resp))
    ELSE /\ loc' = [Tried(loc) EXCEPT !.wait = w, !.last = Got(resp)]
         /\ cpc' = "chunk_sleep"
         /\ UNCHANGED hist

\* lines 46-58 and 68-72: time.sleep before the next pass
ChunkSleeps(w, resp) ==
    /\ loc' = [Tried(loc) EXCEPT !.wait = w, !.last = Got(resp)]
    /\ cpc' = "chunk_sleep"
    /\ UNCHANGED hist

\* one pass of the retry loop of fetch_candlesticks_chunked (lines 41-78)
ChunkAttempt ==
    /\ cpc = "attempt"
    /\ \E resp \in ChunkResponses :
          IF resp.st = "s429"
          THEN ChunkSleeps(RateLimitWait(loc.attempt, resp.hint), resp)
          ELSE IF resp.st = "ok"
          THEN /\ loc' = [Tried(loc) EXCEPT !.chunk_candles =
                            IF resp.full
                            THEN ChunkData(loc.chunk_start, loc.chunk_end,
                                           cfg.intervals[loc.ii], cfg.tagged)
                            ELSE << >>]
               /\ cpc' = "chunk_end"
               /\ hist' = [hist EXCEPT !.answered =
                             Append(@, [chunk   |-> << loc.chunk_start, loc.chunk_end >>,
                                        candles |-> loc'.chunk_candles])]
          ELSE IF resp.st = "unexpected"
          THEN ChunkGivenUp(Tried(loc), Got(resp))
          ELSE IF loc.attempt < ChunkMaxRetries - 1
          THEN ChunkSleeps(BackoffWait(loc.attempt), resp)
          ELSE ChunkGivenUp(Tried(loc), Got(resp))
    /\ UNCHANGED <<cfg, mi, tally, cache, step3, bulkVars>>

\* time.sleep returns: the next pass, or the end of the loop
ChunkWake ==
    /\ cpc = "chunk_sleep"
    /\ IF loc.attempt + 1 < ChunkMaxRetries
       THEN /\ loc' = [loc EXCEPT !.attempt = @ + 1, !.wait = 0, !.last = NoAttempt]
            /\ cpc' = "attempt"
            /\ UNCHANGED hist
       ELSE ChunkGivenUp(loc, loc.last)
    /\ UNCHANGED <<cfg, mi, tally, cache, step3, bulkVars>>

\* a chunk whose candles go in front of the earlier ones
ChunkEndPrepends ==
    /\ cpc = "chunk_end"
    /\ loc' = [loc EXCEPT !.acc = loc.chunk_candles \o @,
                          !.chunk_start = loc.chunk_end,
                          !.chunk_candles = << >>, !.last = NoAttempt]
    /\ cpc' = "chunk_delay"
    /\ UNCHANGED <<cfg, mi, tally, cache, step3, hist, bulkVars>>

\* lines 80-84: the chunk's candles are added and the window advances
ChunkEnd ==
    /\ cpc = "chunk_end"
    /\ loc' = [loc EXCEPT !.acc = @ \o loc.chunk_candles,
                          !.chunk_start = loc.chunk_end,
                          !.chunk_candles = << >>, !.last = NoAttempt]
    /\ cpc' = "chunk_delay"
    /\ UNCHANGED <<cfg, mi, tally, cache, step3, hist, bulkVars>>

\* line 87: time.sleep(0.1) returns
ChunkDelay ==
    /\ cpc = "chunk_delay"
    /\ cpc' = "chunk"
    /\ hist' = [hist EXCEPT !.gap = "delayed"]
    /\ UNCHANGED <<cfg, mi, tally, cache, step3, loc, bulkVars>>

\* a cache emptied when the event_ticker wins
CacheDropOnFallback(c, event_ticker, candidate_series) ==
    IF candidate_series # event_ticker
    THEN CachePut(c, event_ticker, candidate_series)
    ELSE EmptyCache

\* a cache written for every winner
CacheAlways(c, event_ticker, candidate_series) ==
    CachePut(c, event_ticker, candidate_series)

\* lines 271-272: the cache after candidate_series has won
CacheAfterWin(c, event_ticker, candidate_series) ==
    IF candidate_series # event_ticker
    THEN CachePut(c, event_ticker, candidate_series)
    ELSE c

\* lines 254-273: a candidate with candles wins; one without is passed over
Merge ==
    /\ cpc = "merge"
    /\ LET cand == loc.candidates[loc.ci] IN
       /\ hist' = [hist EXCEPT !.fetched =
                     Append(@, [series |-> cand, candles |-> loc.all_candlesticks])]
       /\ IF loc.all_candlesticks # << >>
          THEN /\ loc' = [loc EXCEPT
                            !.candlesticks = DedupSort(loc.all_candlesticks),
                            !.successful_series = cand]
               /\ cache' = CacheAfterWin(cache, loc.market.event_ticker, cand)
               /\ cpc' = "store"
          ELSE /\ cpc' = "candidate"
               /\ UNCHANGED <<loc, cache>>
    /\ UNCHANGED <<cfg, mi, tally, step3, bulkVars>>

\* a record that carries the candles as they were fetched
EnrichedUnmerged(m, candlesticks) ==
    [ticker |-> m.ticker, market |-> m, candlesticks |-> loc.all_candlesticks]

\* lines 281-282: the market with its candlesticks
Enriched(m, candlesticks) ==
    [ticker |-> m.ticker, market |-> m, candlesticks |-> candlesticks]

\* a store step that counts nothing when the write raises
StoreMarketSilentFailure ==
    /\ cpc = "store"
    /\ IF loc.candlesticks # << >>
       THEN \E ok \in BOOLEAN :
              IF ok
              THEN /\ step3' = ReplaceOne(step3, Enriched(loc.market, loc.candlesticks))
                   /\ tally' = [tally EXCEPT !.success_count = @ + 1]
                   /\ UNCHANGED hist
              ELSE /\ hist' = [hist EXCEPT !.errored = @ \cup {mi}]
                   /\ UNCHANGED <<step3, tally>>
       ELSE /\ tally' = [tally EXCEPT !.error_count = @ + 1]
            /\ hist' = [hist EXCEPT !.errored = @ \cup {mi}]
            /\ UNCHANGED step3
    /\ cpc' = "market"
    /\ UNCHANGED <<cfg, mi, cache, loc, bulkVars>>

\* lines 278-293: the market is stored and counted
StoreMarket ==
    /\ cpc = "store"
    /\ IF loc.candlesticks # << >>
       THEN \E ok \in BOOLEAN :
              IF ok
              THEN /\ step3' = ReplaceOne(step3, Enriched(loc.market, loc.candlesticks))
                   /\ tally' = [tally EXCEPT !.success_count = @ + 1]
                   /\ UNCHANGED hist
              ELSE /\ tally' = [tally EXCEPT !.error_count = @ + 1]
                   /\ hist' = [hist EXCEPT !.errored = @ \cup {mi}]
                   /\ UNCHANGED step3
       ELSE /\ tally' = [tally EXCEPT !.error_count = @ + 1]
            /\ hist' = [hist EXCEPT !.errored = @ \cup {mi}]
            /\ UNCHANGED step3
    /\ cpc' = "market"
    /\ UNCHANGED <<cfg, mi, cache, loc, bulkVars>>

NextCandles ==
    \/ NextMarket
    \/ Summary
    \/ LookupAttempt
    \/ LookupWake
    \/ ListCandidates
    \/ NextCandidate
    \/ NextInterval
    \/ NextChunk
    \/ ChunkAttempt
    \/ ChunkWake
    \/ ChunkEnd
    \/ ChunkDelay
    \/ Merge
    \/ StoreMarket

----------------------------------------------------------------------------
(* The merge step on its own: every list of fetched candles of up to       *)
(* MaxCandles points, in any order, with missing fields and repeated keys, *)
(* as the list main() holds for a candidate when its fetches are done.     *)

\* longest list of fetched candles explored
MaxCandles == 3

CandleValues ==
    {Candle(ts, iv, p) : ts \in 0 .. 2, iv \in {None, 60}, p \in {1, 2}}

RECURSIVE ListsUpTo(_, _)
ListsUpTo(S, n) ==
    IF n = 0 THEN {<< >>}
    ELSE LET shorter == ListsUpTo(S, n - 1) IN
         shorter \cup {Append(l, x) : l \in {k \in shorter : Len(k) = n - 1}, x \in S}

InitDedup ==
    /\ BulkIdle
    /\ cfg = Config(<< MarketRec("T1", "E1", "S1", 3, 4) >>, << 1440 >>, 1, TRUE)
    /\ cpc = "merge" /\ mi = 1 /\ tally = ZeroTally
    /\ cache = EmptyCache /\ step3 = << >>
    /\ \E cs \in ListsUpTo(CandleValues, MaxCandles) :
          loc = [NoLocals EXCEPT !.market = cfg.markets[1],
                                 !.series_ticker = "S1",
                                 !.candidates = << "S1", "E1" >>,
                                 !.ci = 1, !.ii = 1,
                                 !.all_candlesticks = cs]
    /\ hist = NoHist

----------------------------------------------------------------------------
(* The write_batch of test_1.py on its own: fetch_markets_by_status of     *)
(* test_1.py has left its page loop at max_markets (lines 60-61) with the  *)
(* first n records of the first page in its buffer, and calls              *)
(* write_batch(buffer, collection) (lines 68-69).                          *)

SinkRun(n) ==
    LET got == SubSeq(PageMarkets(1, BaseExtra), 1, n) IN
    [NewRun("test1", None, 0, n, LargeBatch, 1) EXCEPT
        !.pc = "writing", !.after = "done", !.stop = "max_markets",
        !.requested = << NoCursorParam >>, !.tries = 1,
        !.data = Payload([st |-> "ok", hint |-> 0, x |-> BaseExtra],
                         NoCursorParam, "nocursor"),
        !.idx = n + 1, !.total_fetched = n,
        !.all_markets = got, !.buffer = got, !.pending = got,
        !.sent = got, !.flushed = n]

InitSink ==
    /\ mode = "sink" /\ endStyle = "nocursor"
    /\ store = << >>
    /\ lastWrite = [t \in Tickers |-> NoRecord]
    /\ CandlesIdle
    /\ \E n \in 1 .. PageSize :
          runs = [r \in Runs |-> IF r = 1 THEN SinkRun(n) ELSE IdleRun]

----------------------------------------------------------------------------
(* One bulk run against an API whose listing never ends: every page        *)
(* carries a next cursor, and the cursors repeat or cycle.                 *)

EndlessStyles == {"cycle", "repeat"}

\* a max_markets that takes a run once round the listing and into it again
OneRound == NPages * PageSize + 1

InitEndless ==
    /\ mode = "endless"
    /\ endStyle \in EndlessStyles
    /\ store = << >>
    /\ lastWrite = [t \in Tickers |-> NoRecord]
    /\ CandlesIdle
    /\ \E c \in {None, NPages}, ic \in {0, 2}, mm \in {1, OneRound},
          bs \in {1, LargeBatch} :
          \/ runs = [r \in Runs |->
                      IF r = 1 THEN NewRun("fresh", None, 0, mm, bs, 1)
                      ELSE IdleRun]
          \/ runs = [r \in Runs |->
                      IF r = 1
                      THEN NewRun("continue", c, ic, mm, bs, BulkMaxRetries)
                      ELSE IdleRun]

\* the steps of a run on its own
NextRun ==
    \/ \E r \in Runs : Start(r)
    \/ \E r \in Runs : NextPage(r)
    \/ \E r \in Runs : Request(r)
    \/ \E r \in Runs : Sleep(r)
    \/ \E r \in Runs : AppendStep(r)
    \/ \E r \in Runs : Upsert(r)
    \/ \E r \in Runs : BatchWritten(r)
    \/ \E r \in Runs : Advance(r)
    \/ \E r \in Runs : PageDelay(r)
    \/ \E r \in Runs : Return(r)

----------------------------------------------------------------------------
(* Specifications *)

Init == InitBulk \/ InitCandles \/ InitDedup \/ InitSink

Next == NextBulk \/ NextCandles

\* every program of the pipeline, each from its own initial states
Spec == Init /\ [][Next]_vars

SpecBulk == InitBulk /\ [][NextBulk]_vars

SpecCandles == InitCandles /\ [][NextCandles]_vars

SpecDedup == InitDedup /\ [][NextCandles]_vars

\* a bulk run against an endless listing.  The process is single-threaded
\* and every call it blocks in returns (the requests carry a timeout, the
\* sleeps are finite), so a run that can take a step takes one.
SpecEndless == InitEndless /\ [][NextRun]_vars /\ WF_vars(NextRun)

----------------------------------------------------------------------------
(* Properties of the bulk fetcher *)

Range(s) == {s[i] : i \in 1 .. Len(s)}

\* the records handed to the sink by a run, in order
Sunk(rec) == SubSeq(rec.all_markets, 1, rec.flushed)

\* the records of every page from the one cursor c addresses to the end
RecordsFrom(c) ==
    {Market(t, BaseExtra) : t \in {u \in Tickers : u > (PageOf(c) - 1) * PageSize}}

\* run 1 cut a page short at max_markets and went on to the next cursor
\* (lines 102-103, then 113)
CutPage(rec) == Len(rec.all_markets) % PageSize # 0

\* C1 (as claimed): when the run started by the operator at the cursor at
\* which run 1 stopped has reached the end of the collection, the store
\* holds exactly the records of an uninterrupted run from run 1's
\* start_cursor: every record of every page from there on.
C1_Resumable ==
    (mode = "resume" /\ runs[2].pc = "done" /\ EndOfCollection(runs[2]))
        => Range(store) = RecordsFrom(runs[1].start_cursor)

\* the same, for the stops that leave no page cut short
C1_ResumableUncut ==
    (mode = "resume" /\ runs[2].pc = "done" /\ EndOfCollection(runs[2])
        /\ ~CutPage(runs[1]))
        => Range(store) = RecordsFrom(runs[1].start_cursor)

C1_Resumed ==
    mode = "resume" /\ runs[2].pc = "done" /\ EndOfCollection(runs[2])
        /\ runs[1].stop = "errors" /\ runs[1].all_markets # << >>

\* C2 (as claimed): the store never holds two documents with the same
\* ticker, and for every ticker written so far the stored document equals
\* the last record upserted for it.
C2_IdempotentUpsert ==
    /\ \A i, j \in 1 .. Len(store) :
          store[i].ticker = store[j].ticker => i = j
    /\ \A t \in Tickers :
          lastWrite[t] # NoRecord => lastWrite[t] \in Range(store)

\* the part of C2 that does not depend on the fields of the records
C2_OnePerKey ==
    /\ \A i, j \in 1 .. Len(store) :
          store[i].ticker = store[j].ticker => i = j
    /\ \A t \in Tickers :
          lastWrite[t] # NoRecord =>
             \E i \in 1 .. Len(store) :
                /\ store[i].ticker = t
                /\ lastWrite[t].extra # "absent" => store[i] = lastWrite[t]

\* the flush of line 109 has begun and line 110 has not cleared the buffer
InFlush(rec) == rec.after = "clear"

\* C7: in every run the buffer never holds more than batch_size records,
\* and outside the flush itself its length is the number of records fetched
\* in this run modulo batch_size (so it is empty at every multiple).
C7_BoundedBuffer ==
    \A r \in Runs :
       /\ Len(runs[r].buffer) <= runs[r].batch_size
       /\ ~InFlush(runs[r]) =>
             Len(runs[r].buffer) = Len(runs[r].all_markets) % runs[r].batch_size

C7_Flushed ==
    \E r \in Runs :
       /\ Len(runs[r].all_markets) = 2 * runs[r].batch_size
       /\ runs[r].batch_size > 1
       /\ runs[r].pc = "append" /\ runs[r].buffer = << >>
       /\ runs[r].flushed = 2 * runs[r].batch_size

\* C10 (as claimed): two runs that differ only in initial_count and are
\* given the same API behaviour have asked for the same pages and handed
\* the same records to the sink when both have stopped.
C10_DisplayOnly ==
    (mode = "paired" /\ Stopped(runs[1]) /\ Stopped(runs[2]))
        => /\ runs[1].requested = runs[2].requested
           /\ Sunk(runs[1]) = Sunk(runs[2])

\* a bulk run, a chunk fetch or a lookup sleeping after a failed attempt
BulkSleeping(r) == runs[r].pc = "sleep"

CandleSleeping == cpc \in {"chunk_sleep", "lookup_sleep"}

Last(q) == q[Len(q)]

\* the page loop of the run has ended
PageLoopEnded(rec) ==
    \/ rec.pc \in {"final", "done", "crashed"}
    \/ rec.pc = "writing" /\ rec.after = "done"

\* the tickers of the pages from the one the run started at up to, and
\* not including, the one its cursor addresses
PagesBefore(rec) ==
    {t \in Tickers : /\ t > (PageOf(rec.start_cursor) - 1) * PageSize
                     /\ t <= (PageOf(rec.cursor) - 1) * PageSize}

AppendedTickers(rec) == {m.ticker : m \in Range(rec.all_markets)}

\* the run stopped on a page whose attempts failed: it asks for no further
\* page, the failing page is the one at its cursor, and every page before
\* it was appended whole
StoppedOnFailedPage(rec) ==
    /\ PageLoopEnded(rec)
    /\ Last(rec.requested) = RequestParams(rec.cursor)
    /\ AppendedTickers(rec) = PagesBefore(rec)

C12_CursorSurfaced ==
    \A r \in Runs :
       (runs[r].fn = "continue" /\ runs[r].pc = "done"
           /\ runs[r].stop \in {"errors", "apierror"})
          => runs[r].reported = << runs[r].cursor >>

\* C13 (as claimed): no fetcher sleeps for a retry after a 4xx other than
\* 429.
C13_NoRetryOn4xx ==
    /\ \A r \in Runs : ~(runs[r].pc = "sleep" /\ runs[r].last.st = "s4xx")
    /\ ~(CandleSleeping /\ loc.last.st = "s4xx")

\* C13 (amended): a 4xx other than 429 is retried like a 5xx. In
\* continue_fetch_markets, the chunk fetch and the lookup it ends the
\* attempts only as the last attempt of the budget, and before that it is
\* followed by the backoff sleep; fetch_markets_by_status, which retries
\* nothing, stops on it after one request.
C13_4xxRetried ==
    /\ \A r \in Runs :
          /\ (runs[r].pc = "final" /\ runs[r].stop = "errors"
                 /\ runs[r].last.st = "s4xx") =>
                IF runs[r].fn = "continue"
                THEN runs[r].tries = runs[r].max_retries
                ELSE runs[r].tries = 1
          /\ (runs[r].pc = "sleep" /\ runs[r].last.st = "s4xx") =>
                runs[r].wait = Pow2(runs[r].last.attempt + 1)
    /\ (cpc \in {"chunk_end", "candidates"} /\ loc.last.st = "s4xx") =>
          loc.tries = ChunkMaxRetries
    /\ (CandleSleeping /\ loc.last.st = "s4xx") =>
          loc.wait = Pow2(loc.last.attempt)

C13_ChunkRetriedAfter4xx ==
    /\ cpc = "chunk_end" /\ loc.last.st = "s4xx"
    /\ loc.tries = ChunkMaxRetries /\ loc.last.attempt = ChunkMaxRetries - 1

\* the failures C14 names: a 5xx, a 429, a network-level exception
RetryableFailure(st) == st \in {"s500", "s5xx", "s429", "neterr"}

\* C14: for every page, chunk and lookup the number of HTTP requests never
\* exceeds max_retries, and the attempts end on a 5xx, a 429 or a network
\* exception only when max_retries requests were made.
C14_BoundedRetries ==
    /\ \A r \in Runs :
          /\ runs[r].tries <= runs[r].max_retries
          /\ (runs[r].pc = "final" /\ runs[r].stop = "errors"
                 /\ RetryableFailure(runs[r].last.st)) =>
                runs[r].tries = runs[r].max_retries
    /\ loc.tries <= ChunkMaxRetries
    /\ (cpc \in {"chunk_end", "candidates"} /\ RetryableFailure(loc.last.st)) =>
          loc.tries = ChunkMaxRetries

C14_BudgetUsed ==
    \E r \in Runs :
       /\ runs[r].pc = "final" /\ runs[r].stop = "errors"
       /\ runs[r].last.st = "neterr"
       /\ runs[r].tries = BulkMaxRetries

\* C15: once a page's payload carries an error field the page loop has
\* ended: no further request is made, the cursor is still the one of that
\* page, none of the payload's records was appended; and when such a run
\* has returned, every record appended before was handed to the sink.
C15_EmbeddedErrorStops ==
    \A r \in Runs :
       /\ (runs[r].data.present /\ runs[r].data.error) =>
             /\ runs[r].stop = "apierror"
             /\ StoppedOnFailedPage(runs[r])
             /\ \A m \in Range(runs[r].data.markets) :
                    m.ticker \notin AppendedTickers(runs[r])
       /\ (runs[r].stop = "apierror" /\ runs[r].pc = "done") =>
             runs[r].sent = runs[r].all_markets

\* an embedded error met with a page still in the buffer
C15_ErrorAfterBufferedPage ==
    \E r \in Runs :
       /\ runs[r].stop = "apierror" /\ runs[r].pc = "writing"
       /\ runs[r].after = "done" /\ runs[r].data.error
       /\ Len(runs[r].sent) = PageSize /\ runs[r].flushed = PageSize
       /\ runs[r].all_markets = runs[r].sent
       /\ runs[r].data.markets # << >>

\* the page in hand has been dealt with
PagePassed(rec) ==
    \/ rec.pc \in {"delay", "loop", "final", "done"}
    \/ rec.pc \in {"writing", "crashed"} /\ rec.after = "done"

\* C16: a page without records, and a page without next cursor once its
\* records are appended, end the page loop with no further request; and a
\* run that has returned has handed every record it appended to the sink
\* once, in order.
C16_EndOfCollection ==
    \A r \in Runs :
       /\ (runs[r].data.present /\ ~runs[r].data.error
              /\ runs[r].data.markets = << >>) =>
             (runs[r].stop = "nomarkets" /\ PageLoopEnded(runs[r]))
       /\ (runs[r].data.present /\ ~runs[r].data.error
              /\ runs[r].data.markets # << >> /\ ~Truthy(runs[r].data.cursor)
              /\ PagePassed(runs[r])) =>
             (runs[r].stop = "nocursor" /\ PageLoopEnded(runs[r]))
       /\ runs[r].stop \in {"nomarkets", "nocursor"} =>
             /\ PageLoopEnded(runs[r])
             /\ Len(runs[r].requested) =
                   PageOf(Last(runs[r].requested).cursor)
                      - PageOf(runs[r].start_cursor) + 1
       /\ runs[r].pc = "done" => runs[r].sent = runs[r].all_markets

\* a run that returned at the end of the collection after a last flush of
\* what a full batch had left over
C16_LastFlush ==
    \E r \in Runs :
       /\ runs[r].pc = "done" /\ runs[r].stop = "nocursor"
       /\ runs[r].batch_size = LargeBatch
       /\ Len(runs[r].sent) = NPages * PageSize
       /\ runs[r].sent = runs[r].all_markets

\* C17 (as claimed): a run started with start_cursor = None is accepted: it
\* makes a first request, and that request carries no cursor parameter.
C17_AcceptsNone ==
    \A r \in Runs :
       (runs[r].start_cursor = None /\ Stopped(runs[r])) =>
          /\ runs[r].requested # << >>
          /\ ~runs[r].requested[1].has

\* C17 (amended): every request carries a cursor parameter exactly when the
\* cursor is non-empty, and then the cursor itself; a run of
\* fetch_markets_by_status starts without one and asks for the pages in
\* order; continue_fetch_markets raises TypeError on start_cursor = None
\* before any request.
C17_CursorParam ==
    \A r \in Runs :
       /\ \A i \in 1 .. Len(runs[r].requested) :
             /\ runs[r].requested[i].has <=> Truthy(runs[r].requested[i].cursor)
             /\ runs[r].fn = "fresh" =>
                   runs[r].requested[i] =
                      (IF i = 1 THEN NoCursorParam ELSE [has |-> TRUE, cursor |-> i])
       /\ runs[r].pc \in {"request", "sleep"} =>
             /\ runs[r].params = Last(runs[r].requested)
             /\ runs[r].params.has <=> Truthy(runs[r].cursor)
             /\ runs[r].params.has => runs[r].params.cursor = runs[r].cursor
       /\ (runs[r].fn = "continue" /\ runs[r].start_cursor = None
              /\ runs[r].pc \notin {"idle", "start"}) =>
             /\ runs[r].pc = "crashed" /\ runs[r].stop = "TypeError"
             /\ runs[r].requested = << >>

C17_FreshPages ==
    \E r \in Runs :
       /\ runs[r].fn = "fresh" /\ runs[r].pc = "request"
       /\ Len(runs[r].requested) = 2
       /\ runs[r].requested[1] = NoCursorParam
       /\ runs[r].params = [has |-> TRUE, cursor |-> 2]

\* C21 (as claimed): no failure leaves its unit as an uncaught error. A
\* failed write of the sink does not end a bulk run by an exception; and in
\* the candlestick run every market taken so far is counted, a market whose
\* store write failed being counted as an error before the next is taken.
C21_FailureContained ==
    /\ \A r \in Runs : ~(runs[r].pc = "crashed" /\ runs[r].writeError)
    /\ cpc = "market" =>
          /\ tally.success_count + tally.skip_count + tally.error_count = mi
          /\ (mi >= 1 /\ loc.market = cfg.markets[mi]
                 /\ loc.candlesticks # << >>
                 /\ \A i \in 1 .. Len(step3) : step3[i].ticker # loc.market.ticker)
                => mi \in hist.errored

\* C22 (as claimed): at every point of a run every record of every page
\* before the one the current cursor addresses is in the store.
C22_PersistedBeforeCursor ==
    \A r \in Runs :
       runs[r].fn \in {"continue", "fresh"} =>
          \A t \in PagesBefore(runs[r]) : Matches(store, t) # {}

\* the write_batch call of the run has ended: every op of the batch was
\* executed, or an exception of the write has left the call
CallEnded(rec) ==
    \/ rec.pc = "writing" /\ rec.pending = << >>
    \/ rec.pc = "crashed" /\ rec.writeError

\* C23 (as claimed): when a write_batch call has ended, the write of every
\* record of the batch was attempted, and every record of the batch whose
\* own write did not fail is in the store.
C23_BatchIndependence ==
    \A r \in Runs :
       CallEnded(runs[r]) =>
          /\ runs[r].pending = << >>
          /\ \A m \in Range(runs[r].buffer) :
                m.ticker \notin runs[r].failed => Matches(store, m.ticker) # {}

\* the same for the unordered bulk_write of etl/1_continue_fetch_markets.py
\* and etl/1_fetch_markets.py alone
C23_UnorderedBulkWrite ==
    \A r \in Runs :
       (runs[r].fn \in {"continue", "fresh"} /\ CallEnded(runs[r])) =>
          /\ runs[r].pending = << >>
          /\ \A m \in Range(runs[r].buffer) :
                m.ticker \notin runs[r].failed => Matches(store, m.ticker) # {}

\* C24 (as claimed): once a run has taken over the cursor of an error-free
\* page, every record of that page is among the records appended, and so
\* is every record of every earlier page of the run.
C24_EveryRecordAppended ==
    \A r \in Runs :
       /\ (runs[r].data.present /\ ~runs[r].data.error
              /\ runs[r].pc \in {"delay", "loop"}) =>
             \A m \in Range(runs[r].data.markets) :
                m.ticker \in AppendedTickers(runs[r])
       /\ PagesBefore(runs[r]) \subseteq AppendedTickers(runs[r])

----------------------------------------------------------------------------
(* Properties of the candlestick fetcher *)

\* the composite key (period_end_ts, resolution) of a point
Composite(c) == << c.end_period_ts, c.period_interval >>

\* the first point of the list with the key k
FirstWithKey(cs, k) ==
    cs[First({i \in 1 .. Len(cs) : Composite(cs[i]) = k})]

\* C3: whatever the fetched list, the merged result holds no two points
\* with the same (period_end_ts, resolution), each point it holds is the
\* first of the fetched list with its key, and it is in ascending order of
\* period_end_ts.
C3_DedupOrder ==
    (cpc = "store" /\ loc.successful_series # "") =>
        LET out == loc.candlesticks
            inp == loc.all_candlesticks
        IN /\ \A i, j \in 1 .. Len(out) :
                 Composite(out[i]) = Composite(out[j]) => i = j
           /\ \A i \in 1 .. Len(out) :
                 /\ \E k \in 1 .. Len(inp) : Composite(inp[k]) = Composite(out[i])
                 /\ out[i] = FirstWithKey(inp, Composite(out[i]))
           /\ \A i, j \in 1 .. Len(out) :
                 i < j => out[i].end_period_ts <= out[j].end_period_ts

\* a fetched list with a repeated key, out of order
C3_Merged ==
    /\ cpc = "store" /\ Len(loc.all_candlesticks) = 3
    /\ Len(loc.candlesticks) = 2
    /\ Composite(loc.all_candlesticks[2]) = Composite(loc.all_candlesticks[3])
    /\ loc.all_candlesticks[2] # loc.all_candlesticks[3]
    /\ loc.all_candlesticks[1].end_period_ts > loc.all_candlesticks[2].end_period_ts
    /\ loc.all_candlesticks[2].end_period_ts > 0

\* the resolved id G yielded nothing and the event_ticker S yielded points
FallbackWon ==
    /\ cpc \in {"store", "market"}
    /\ Len(hist.fetched) = 2
    /\ hist.fetched[1].series # hist.fetched[2].series
    /\ hist.fetched[1].candles = << >>
    /\ hist.fetched[2].candles # << >>
    /\ hist.fetched[2].series = loc.market.event_ticker

C5_Backoff ==
    /\ \A r \in Runs :
          (BulkSleeping(r) /\ runs[r].last.hint = None) =>
             runs[r].wait = Pow2(runs[r].last.attempt + 1)
    /\ (CandleSleeping /\ loc.last.hint = None) =>
          loc.wait = Pow2(loc.last.attempt + 1)

\* C5 (amended): the wait is 2^(a+1) seconds in the bulk fetcher and
\* retry_delay * 2^a = 2^a seconds in the chunk retry and the lookup retry.
C5_BackoffPerFetcher ==
    /\ \A r \in Runs :
          (BulkSleeping(r) /\ runs[r].last.hint = None) =>
             runs[r].wait = Pow2(runs[r].last.attempt + 1)
    /\ (CandleSleeping /\ loc.last.hint = None) =>
          loc.wait = Pow2(loc.last.attempt)

C5_ChunkBackoff ==
    /\ cpc = "chunk_sleep" /\ loc.last.st = "s5xx"
    /\ loc.last.attempt = 1 /\ loc.wait = 2

\* C6 (as claimed): after a 429 with Retry-After h the wait is h seconds in
\* both fetchers.
C6_RetryAfter ==
    /\ \A r \in Runs :
          (BulkSleeping(r) /\ runs[r].last.st = "s429" /\ runs[r].last.hint # None)
             => runs[r].wait = runs[r].last.hint
    /\ (CandleSleeping /\ loc.last.st = "s429" /\ loc.last.hint # None)
          => loc.wait = loc.last.hint

\* C6 (amended): after a 429 with Retry-After h the wait is h seconds in the
\* chunk retry and the lookup retry; the bulk fetcher does not read the
\* header and waits 2^(a+1) seconds.
C6_RetryAfterCandles ==
    /\ \A r \in Runs :
          (BulkSleeping(r) /\ runs[r].last.st = "s429" /\ runs[r].last.hint # None)
             => runs[r].wait = Pow2(runs[r].last.attempt + 1)
    /\ (CandleSleeping /\ loc.last.st = "s429" /\ loc.last.hint # None)
          => loc.wait = loc.last.hint

C6_HintedWait ==
    /\ cpc = "chunk_sleep" /\ loc.last.st = "s429"
    /\ loc.last.attempt = 0 /\ loc.last.hint = 5 /\ loc.wait = 5

\* the chunks of the window [start_ts, end_ts]
RECURSIVE WindowChunks(_, _)
WindowChunks(start_ts, end_ts) ==
    IF start_ts < end_ts
    THEN << << start_ts, Min(start_ts + ChunkDays, end_ts) >> >>
            \o WindowChunks(Min(start_ts + ChunkDays, end_ts), end_ts)
    ELSE << >>

\* C8: whatever the chunks' outcomes, a fetch that has returned has asked
\* for every chunk of its window, a candidate that is merged has been
\* fetched at every interval, a market none of whose candidates yielded
\* a point has had every candidate tried, and the run ends only with every market counted.
C8_ExhaustionScoped ==
    /\ (cpc = "interval" /\ loc.ii >= 1) =>
          hist.asked = WindowChunks(loc.start_ts, loc.end_ts)
    /\ cpc = "merge" => loc.ii = Len(cfg.intervals)
    /\ (cpc = "store" /\ loc.successful_series = "") =>
          loc.ci = Len(loc.candidates)
    /\ cpc = "done" =>
          /\ mi = Len(cfg.markets)
          /\ tally.success_count + tally.skip_count + tally.error_count
                = Len(cfg.markets)

\* the first chunk of a window was given up and the second is requested
C8_NextChunkAsked ==
    /\ cpc = "attempt" /\ Len(hist.asked) = 2
    /\ loc.ci = 1 /\ loc.ii = 1 /\ mi = 1
    /\ mi \in hist.exhausted

\* C9 (as claimed): in the summary every market with a chunk given up is
\* among the markets counted as errors.
C9_ExhaustionCounted ==
    cpc = "done" => hist.exhausted \subseteq hist.errored

\* the candidates of the market in hand have been listed
Listed ==
    cpc \in {"candidate", "interval", "chunk", "attempt", "chunk_sleep",
             "chunk_end", "chunk_delay", "merge", "store"}

\* C18: the candidate list is the resolved id, if any, followed by the
\* event_ticker: at most two candidates, the event_ticker last. They are
\* tried in that order, every candidate before the last one tried returned
\* nothing, and once a candidate has returned candles it is the winner, the
\* result is its merged fetch and no later candidate is taken.
C18_FirstSuccessWins ==
    Listed =>
       /\ loc.candidates =
             (IF loc.series_ticker # "" THEN << loc.series_ticker >> ELSE << >>)
                \o << loc.market.event_ticker >>
       /\ Len(loc.candidates) <= 2
       /\ Last(loc.candidates) = loc.market.event_ticker
       /\ Len(hist.fetched) <= loc.ci /\ loc.ci <= Len(hist.fetched) + 1
       /\ loc.ci <= Len(loc.candidates)
       /\ \A i \in 1 .. Len(hist.fetched) :
             /\ hist.fetched[i].series = loc.candidates[i]
             /\ i < Len(hist.fetched) => hist.fetched[i].candles = << >>
       /\ (hist.fetched # << >> /\ Last(hist.fetched).candles # << >>) =>
             /\ cpc = "store" /\ loc.ci = Len(hist.fetched)
             /\ loc.successful_series = loc.candidates[loc.ci]
             /\ loc.candlesticks = DedupSort(Last(hist.fetched).candles)
       /\ loc.successful_series # "" =>
             (hist.fetched # << >> /\ Last(hist.fetched).candles # << >>)

\* the first of two candidates has won
C18_FirstWon ==
    /\ cpc = "store" /\ Len(loc.candidates) = 2
    /\ loc.candidates[1] # loc.candidates[2]
    /\ loc.ci = 1 /\ Len(hist.fetched) = 1
    /\ loc.successful_series = loc.candidates[1]

C20_NoEmptyCacheValue ==
    /\ \A k \in DOMAIN cache : cache[k] # ""
    /\ (cpc = "candidates" /\ loc.market.series_ticker = ""
           /\ loc.series_ticker = "") => loc.tries > 0

\* the lookup failed for the first market of an event, and is made again
\* for the second
C20_LookupAgain ==
    /\ cpc = "lookup" /\ mi = 2 /\ loc.tries = 0
    /\ cfg.markets[1].event_ticker = loc.market.event_ticker
    /\ HasRequiredFields(cfg.markets[1])
    /\ cfg.markets[1].series_ticker = ""
    /\ cache = EmptyCache

Max(a, b) == IF a > b THEN a ELSE b

\* a fetch of the market in hand is in progress
InFetch ==
    cpc \in {"chunk", "attempt", "chunk_sleep", "chunk_end", "chunk_delay"}

\* the fetch call made last for the candidate in hand has returned
FetchReturned == cpc = "interval" /\ loc.ii >= 1

\* C25: the window of every fetch starts at open_time - extend_before and
\* ends at the later of close_time + extend_after and the current time;
\* the first chunk asked for starts at that start.
C25_TimeWindow ==
    (InFetch \/ FetchReturned) =>
       /\ loc.start_ts = loc.market.open_time - ExtendBefore
       /\ loc.end_ts = Max(loc.market.close_time + ExtendAfter, cfg.now)
       /\ hist.asked # << >> => hist.asked[1][1] = loc.start_ts

\* a window whose end is the current time
C25_ExtendedToNow ==
    /\ cpc = "attempt"
    /\ cfg.now > loc.market.close_time + ExtendAfter
    /\ loc.end_ts = cfg.now
    /\ loc.start_ts = loc.market.open_time - ExtendBefore
    /\ hist.asked[1][1] = loc.start_ts

\* ceil(n / d) for n >= 0, d > 0
CeilDiv(n, d) == (n + d - 1) \div d

\* C26: the chunks asked for are consecutive from start_ts, each ends
\* chunk_days after its start or at end_ts if that comes first, each is
\* non-empty (so the loop advances and ends); and when the fetch returns,
\* the last one ends at end_ts and there are ceil((end_ts - start_ts) /
\* chunk_days) of them, none at all when start_ts >= end_ts.
C26_ChunkPartition ==
    (InFetch \/ FetchReturned) =>
       LET a == hist.asked
           s == loc.start_ts
           e == loc.end_ts
       IN /\ \A i \in 1 .. Len(a) :
                /\ a[i][1] = (IF i = 1 THEN s ELSE a[i - 1][2])
                /\ a[i][2] = (IF a[i][1] + ChunkDays < e
                              THEN a[i][1] + ChunkDays ELSE e)
                /\ a[i][1] < a[i][2]
                /\ a[i][2] - a[i][1] <= ChunkDays
          /\ FetchReturned =>
                IF s < e
                THEN /\ a # << >> /\ a[Len(a)][2] = e
                     /\ Len(a) = CeilDiv(e - s, ChunkDays)
                ELSE a = << >>

\* a fetch that has returned after two chunks, the second a short one
C26_ShortLastChunk ==
    /\ FetchReturned /\ Len(hist.asked) = 2
    /\ hist.asked[2][2] = loc.end_ts
    /\ hist.asked[2][2] - hist.asked[2][1] < ChunkDays

\* the candles of the fetch calls f[1], f[2], ... one after the other
RECURSIVE Concatenated(_)
Concatenated(f) ==
    IF f = << >> THEN << >>
    ELSE Concatenated(SubSeq(f, 1, Len(f) - 1)) \o f[Len(f)].candles

\* C27: for the candidate in hand one fetch call is made per interval of
\* PERIOD_INTERVALS, in the order of the list, each for every chunk of the
\* whole window; the candidate's list is the concatenation of the calls'
\* results; and the candidate is merged only when every interval was
\* fetched, whatever the earlier ones returned.
C27_FanOut ==
    (InFetch \/ cpc \in {"interval", "merge"}) =>
       /\ Len(hist.fanout) <= Len(cfg.intervals)
       /\ Len(hist.fanout) = (IF InFetch THEN loc.ii - 1 ELSE loc.ii)
       /\ \A i \in 1 .. Len(hist.fanout) :
             /\ hist.fanout[i].interval = cfg.intervals[i]
             /\ hist.fanout[i].asked =
                   WindowChunks(WindowStart(loc.market),
                                Max(loc.market.close_time + ExtendAfter, cfg.now))
       /\ loc.all_candlesticks = Concatenated(hist.fanout)
       /\ cpc = "merge" => Len(hist.fanout) = Len(cfg.intervals)

\* the first interval returned nothing, the second returned candles
C27_EmptyThenFull ==
    /\ cpc = "merge" /\ Len(hist.fanout) = 2
    /\ hist.fanout[1].candles = << >>
    /\ hist.fanout[2].candles # << >>
    /\ hist.fanout[1].interval # hist.fanout[2].interval

----------------------------------------------------------------------------
(* Cursor, delays and cache over a whole run *)

\* the page in hand is being requested, or its records are being appended
PageInHand(rec) ==
    \/ rec.pc \in {"request", "sleep", "append", "advance"}
    \/ rec.pc = "writing" /\ rec.after = "clear"

AsksFurtherPage(rec) ==
    /\ rec.pc = "loop" /\ rec.requested # << >>
    /\ rec.total_fetched < rec.max_markets

\* the chunk fetch is about to ask for a chunk
AsksChunk == cpc = "chunk" /\ loc.chunk_start < loc.end_ts

\* C29 (as claimed): a bulk run that is about to ask for a further page has
\* slept the fixed delay since its last request, and the chunk fetch that
\* is about to ask for a chunk has slept the fixed delay since the request
\* of the chunk before, whatever that chunk's outcome.
C29_DelayBetweenRequests ==
    /\ \A r \in Runs : AsksFurtherPage(runs[r]) => runs[r].slept
    /\ AsksChunk => hist.gap # "asked"

\* C29 (amended): so it is in continue_fetch_markets and between chunks;
\* fetch_markets_by_status asks for the next page without any delay.
C29_DelayInContinueAndChunks ==
    /\ \A r \in Runs :
          AsksFurtherPage(runs[r]) =>
             (runs[r].slept <=> runs[r].fn = "continue")
    /\ AsksChunk => hist.gap # "asked"

\* the second chunk is about to be asked for after the first was given up
C29_DelayAfterFailedChunk ==
    /\ AsksChunk /\ Len(hist.asked) = 1
    /\ hist.gap = "delayed" /\ mi \in hist.exhausted

\* C30: no step of a run removes an entry of the cache or leaves an entry
\* with an empty id.
C30_NeverInvalidated ==
    [][\A k \in DOMAIN cache : k \in DOMAIN cache' /\ cache'[k] # ""]_vars

\* an entry made by the lookup and written again for the winner
C30_EntryKept ==
    /\ cpc = "store" /\ loc.market.series_ticker = ""
    /\ loc.successful_series = "S1"
    /\ hist.cacheBefore = cache
    /\ CacheGet(cache, loc.market.event_ticker) = "S1"

----------------------------------------------------------------------------
(* Termination of a bulk run *)

PagesAllowed(rec) ==
    IF rec.max_markets > rec.initial_count
    THEN rec.max_markets - rec.initial_count ELSE 0

\* the variant of the page loop: the pages asked for never outnumber the
\* records the run may still take, no page is tried more than max_retries
\* times, and every page the loop went on after has appended a record
C31_Variant ==
    \A r \in Runs :
        /\ Len(runs[r].requested) <= PagesAllowed(runs[r])
        /\ runs[r].tries <= runs[r].max_retries
        /\ runs[r].pc \in {"advance", "delay"}
              => Len(runs[r].all_markets) >= Len(runs[r].requested)

AllStopped == \A r \in Runs : runs[r].pc \in {"idle", "done", "crashed"}

\* C31: with max_markets finite every bulk run terminates, whatever the API
\* does (cursors that repeat or cycle, pages that always carry a next
\* cursor): every pass of the loop stops the run or appends a record, so at
\* most max(0, max_markets - initial_count) pages are asked for, each at
\* most max_retries times, and the run ends
C31_Terminates == []C31_Variant /\ <>[]AllStopped

\* a run that went round the listing and was stopped by max_markets alone
C31_StoppedByLimit ==
    \E r \in Runs :
        /\ runs[r].pc = "done" /\ runs[r].stop = "max_markets"
        /\ Len(runs[r].requested) > NPages
        /\ \E i, j \in 1 .. Len(runs[r].requested) :
              i < j /\ runs[r].requested[i] = runs[r].requested[j]

----------------------------------------------------------------------------
(* The tally of the candlestick run *)

Counted == tally.success_count + tally.skip_count + tally.error_count

\* the market taken last has been counted
BetweenMarkets == cpc \in {"idle", "market", "done"}

\* C32: after each market is processed success_count + skip_count +
\* error_count is the number of markets processed so far, a market in hand
\* is not counted yet, no step adds more than one to one counter, and the
\* summary has success + skipped + errors = total markets
C32_TallySum ==
    /\ [](/\ BetweenMarkets => Counted = mi
          /\ ~BetweenMarkets => Counted = mi - 1
          /\ cpc = "done" => Counted = Len(cfg.markets))
    /\ [][\/ tally' = tally
          \/ tally' = [tally EXCEPT !.success_count = @ + 1]
          \/ tally' = [tally EXCEPT !.skip_count = @ + 1]
          \/ tally' = [tally EXCEPT !.error_count = @ + 1]]_vars

\* a summary after a skipped market and a market whose candles were fetched
\* and whose store write failed
C32_SkippedAndWriteFailed ==
    /\ cpc = "done" /\ mi = 2
    /\ tally = [success_count |-> 0, skip_count |-> 1, error_count |-> 1]
    /\ loc.candlesticks # << >> /\ step3 = << >>

----------------------------------------------------------------------------
(* The accounting of a bulk run *)

\* the buffer is the batch handed to write_batch last: the write is in
\* progress, or it has ended and the buffer was not assigned since (an
\* exception of the write, the final flush of lines 121-123)
BufferHanded(rec) ==
    \/ rec.pc = "writing"
    \/ rec.pc = "crashed" /\ rec.writeError
    \/ rec.pc = "done"

\* C33: all_markets is the concatenation of the batches passed to the sink,
\* followed by the buffer unless the buffer is the batch passed last;
\* total_fetched = initial_count + len(all_markets); total_fetched never
\* exceeds max(max_markets, initial_count); and the list returned is the
\* concatenation of all flushed batches
C33_Accounting ==
    \A r \in Runs :
       LET rec == runs[r] IN
       /\ rec.all_markets =
             IF BufferHanded(rec) THEN rec.sent ELSE rec.sent \o rec.buffer
       /\ rec.flushed = Len(rec.sent)
       /\ rec.total_fetched = rec.initial_count + Len(rec.all_markets)
       /\ rec.total_fetched <= Max(rec.max_markets, rec.initial_count)
       /\ rec.pc = "done" => rec.all_markets = rec.sent

\* a run that has returned after a flush in the loop and a final flush of
\* what the buffer held then
C33_TwoFlushes ==
    \E r \in Runs :
       /\ runs[r].pc = "done" /\ runs[r].batch_size = LargeBatch
       /\ runs[r].initial_count = 0
       /\ Len(runs[r].sent) > LargeBatch
       /\ runs[r].buffer # << >> /\ Len(runs[r].buffer) < Len(runs[r].sent)

----------------------------------------------------------------------------
(* What the merge keeps *)

\* the (period_end_ts, resolution) keys of the points the winning candidate
\* returned, the resolution being the one the point was fetched under
FetchedKeys ==
    UNION { {<< f.candles[j].end_period_ts, f.interval >> :
                j \in 1 .. Len(f.candles)} : f \in Range(hist.fanout) }

\* C34 (as claimed): the merge loses nothing but duplicates: the merged
\* result of the winning candidate holds one point for every
\* (period_end_ts, resolution) key fetched, two points of the same
\* period_end_ts fetched under different resolutions being both kept.
C34_OnlyDuplicatesDropped ==
    (cpc = "store" /\ loc.successful_series # "") =>
        Len(loc.candlesticks) = Cardinality(FetchedKeys)

----------------------------------------------------------------------------
(* The enriched collection *)

\* every candidate of the market taken last was fetched and returned nothing
NothingYielded ==
    /\ mi >= 1 /\ HasRequiredFields(cfg.markets[mi])
    /\ hist.fetched # << >>
    /\ \A i \in 1 .. Len(hist.fetched) : hist.fetched[i].candles = << >>

\* C35: every record written to the enriched collection carries a
\* non-empty candlestick sequence without two points of one key, in
\* ascending order of end_period_ts, together with all fields of the source
\* market; and a market every candidate of which yielded nothing is not
\* written and is counted as an error
C35_EnrichedStore ==
    /\ \A d \in 1 .. Len(step3) :
          LET cs == step3[d].candlesticks IN
          /\ cs # << >>
          /\ \A i, j \in 1 .. Len(cs) :
                /\ Composite(cs[i]) = Composite(cs[j]) => i = j
                /\ i < j => cs[i].end_period_ts <= cs[j].end_period_ts
          /\ \E k \in 1 .. mi :
                /\ step3[d].market = cfg.markets[k]
                /\ step3[d].ticker = cfg.markets[k].ticker
    /\ (BetweenMarkets /\ NothingYielded) =>
          /\ \A d \in 1 .. Len(step3) :
                step3[d].ticker # cfg.markets[mi].ticker
          /\ mi \in hist.errored

\* the first market was stored with its merged candles, and every candidate
\* of the second yielded nothing
C35_OneStoredOneEmpty ==
    /\ cpc = "done" /\ mi = 2 /\ NothingYielded
    /\ Len(hist.fetched) = 2
    /\ Len(step3) = 1 /\ step3[1].market = cfg.markets[1]
    /\ Len(step3[1].candlesticks) >= 2
    /\ tally = [success_count |-> 1, skip_count |-> 0, error_count |-> 1]

----------------------------------------------------------------------------
(* The result of the chunked fetch *)

\* the chunks asked for so far whose request succeeded, in the order asked
Succeeded ==
    SelectSeq(hist.asked,
              LAMBDA w : \E i \in 1 .. Len(hist.answered) :
                            hist.answered[i].chunk = w)

\* C36: whatever the chunks' outcomes, the list a chunked fetch has built
\* is the concatenation, in the order the chunks were asked for, of the
\* candles of the chunks whose request succeeded; a chunk given up adds
\* nothing, and every candle of the list is one the API sent for its chunk
C36_ChunkedResult ==
    (InFetch \/ FetchReturned) =>
       /\ [i \in 1 .. Len(hist.answered) |-> hist.answered[i].chunk] = Succeeded
       /\ Concatenated(hist.answered) =
             IF FetchReturned THEN Last(hist.fanout).candles
             ELSE IF cpc = "chunk_end" THEN loc.acc \o loc.chunk_candles
             ELSE loc.acc
       /\ \A i \in 1 .. Len(hist.answered) :
             \A c \in Range(hist.answered[i].candles) :
                /\ c.price = hist.answered[i].chunk[1]
                /\ c.end_period_ts \in hist.answered[i].chunk[1] ..
                                        hist.answered[i].chunk[2]

\* a fetch has returned the candles of its second chunk alone, the first
\* chunk having been given up
C36_FirstChunkSkipped ==
    /\ FetchReturned /\ Len(hist.asked) = 2
    /\ Len(hist.answered) = 1 /\ hist.answered[1].chunk = hist.asked[2]
    /\ Last(hist.fanout).candles = hist.answered[1].candles
    /\ Last(hist.fanout).candles # << >>

----------------------------------------------------------------------------
(* Sleeps of the retry loops *)

\* C37 (as claimed): a retry loop sleeps only when another attempt for the
\* same page, chunk or lookup follows: while a run sleeps after a failed
\* attempt, fewer than max_retries requests have been made for the unit,
\* whatever the failure, a 429 included.
C37_NoWaitAfterLastAttempt ==
    /\ \A r \in Runs : BulkSleeping(r) => runs[r].tries < runs[r].max_retries
    /\ CandleSleeping => loc.tries < ChunkMaxRetries

----------------------------------------------------------------------------
(* Markets with missing fields *)

\* the record lacks one of ticker, event_ticker, open_time, close_time
Lacking(m) ==
    \/ m.ticker = "" \/ m.event_ticker = ""
    \/ m.open_time = None \/ m.close_time = None

\* C38: a market lacking a required field (a still-open market without
\* close_time included) is passed over in one step that makes no lookup
\* request and no candlestick request, leaves the cache, the enriched
\* collection and the locals of the fetch as they are, and adds one to
\* skip_count and to nothing else
C38_SkipWithoutEffects ==
    [][(cpc = "market" /\ mi < Len(cfg.markets) /\ Lacking(cfg.markets[mi + 1]))
          => /\ mi' = mi + 1 /\ cpc' = "market"
             /\ cache' = cache /\ step3' = step3 /\ loc' = loc
             /\ hist'.asked = << >> /\ hist'.fetched = << >>
             /\ hist'.exhausted = hist.exhausted /\ hist'.errored = hist.errored
             /\ tally' = [tally EXCEPT !.skip_count = @ + 1]]_vars

\* a still-open market has been skipped after a market that filled the
\* cache and was stored
C38_SkippedAfterStored ==
    /\ cpc = "market" /\ mi = 2 /\ Lacking(cfg.markets[2])
    /\ cfg.markets[2].close_time = None
    /\ cache # EmptyCache /\ step3 # << >>
    /\ tally = [success_count |-> 1, skip_count |-> 1, error_count |-> 0]

----------------------------------------------------------------------------
(* Unexpected exceptions *)

\* the attempt made last for the page in hand raised an exception that is
\* not a RequestException
PageRaisedUnexpected(rec) ==
    rec.fn = "continue" /\ rec.last.st = "unexpected"

\* the same for the chunk in hand
ChunkRaisedUnexpected == InFetch /\ loc.last.st = "unexpected"

\* C39: an exception other than a RequestException raised by the request
\* for a page, or by the decoding of its response, ends the page loop of
\* continue_fetch_markets with that attempt as the last request and the
\* cursor of the page reported; raised for a chunk it ends the attempts of
\* that chunk alone, which adds no candles, and the fetch goes on to the
\* next chunk; neither loop sleeps or asks again after it
C39_UnexpectedNotRetried ==
    /\ [](\A r \in Runs :
            PageRaisedUnexpected(runs[r]) =>
               /\ PageLoopEnded(runs[r]) /\ runs[r].stop = "errors"
               /\ runs[r].tries = runs[r].last.attempt + 1
               /\ ~runs[r].data.present
               /\ runs[r].reported # << >>
               /\ Last(runs[r].reported) = runs[r].cursor
               /\ Last(runs[r].requested) = RequestParams(runs[r].cursor))
    /\ [](ChunkRaisedUnexpected =>
            /\ cpc = "chunk_end" /\ loc.chunk_candles = << >>
            /\ loc.tries = loc.last.attempt + 1
            /\ Last(hist.asked) = << loc.chunk_start, loc.chunk_end >>)
    /\ [][ChunkRaisedUnexpected =>
            /\ cpc' = "chunk_delay" /\ loc'.acc = loc.acc
            /\ loc'.chunk_start = loc.chunk_end
            /\ hist'.asked = hist.asked]_vars

\* a page was asked for again after a request error, and the second
\* attempt raised an unexpected exception: the loop has ended
C39_RaisedOnSecondAttempt ==
    \E r \in Runs :
       /\ PageRaisedUnexpected(runs[r]) /\ runs[r].pc = "final"
       /\ runs[r].tries = 2 /\ runs[r].max_retries = BulkMaxRetries
       /\ runs[r].reported = << runs[r].cursor >>

====
